---- MODULE Spec2Model ----
(***************************************************************************)
(* Model of the MCP orchestrator (internal/mcp/orchestrator.go), the agent *)
(* base and variants (internal/mcp/*_agent.go, baseAgent), the agent       *)
(* factory (internal/mcp/factory.go) and the asynchronous task manager     *)
(* (internal/services/task_manager.go).                                    *)
(*                                                                         *)
(* Goroutines are modelled as processes with a program counter.  A step of *)
(* a process is one critical section of the source (one acquisition of an  *)
(* agent's mutex, of the task manager's mutex, or one channel operation).  *)
(* Operations that run entirely under the orchestrator's write lock or the *)
(* task manager's mutex are single actions.                                *)
(***************************************************************************)
EXTENDS Integers, Sequences, FiniteSets, TLC

----------------------------------------------------------------------------
(* Bounds of the model *)

MaxAgents == 2
NumCallers == 2
MaxCalls == 2
MaxTasks == 2
MaxStarts == 2
WorkerCount == 1
MaxQueueSize == 1
MaxCancels == 2
MaxRegCalls == 1     \* calls made while the registry is being changed
MaxSteps == 3        \* steps of a workflow
FifoQueueSize == 2   \* queue capacity when the dequeue order is examined

AgentIds == 1..MaxAgents
Callers == {100 + i : i \in 1..NumCallers}
WorkerIds == 1..(WorkerCount * MaxStarts)

----------------------------------------------------------------------------
(* Values *)

AgentStatusIdle == "idle"
AgentStatusBusy == "busy"
AgentStatusError == "error"
AgentStatusTerminated == "terminated"

Absent == "-"
Keys == {"lang", "tz"}
EmptyCtx == [k \in Keys |-> Absent]
CtxA == [lang |-> "es", tz |-> "UTC"]
CtxB == [lang |-> "en", tz |-> Absent]
CtxInputs == {EmptyCtx, CtxA, CtxB}
KeyLists == {{}, {"lang"}, {"lang", "tz"}}

TaskTypes == {"http_request", "other"}
TaskIdSet == {"a", "b"}

CfgKeys == {"base_url", "steps", "openai_api_key", "vertex_project", "processing_range"}

Cfg(t, n, nl, k, v) ==
    [type |-> t, name |-> n, isNil |-> nl,
     keys |-> [x \in CfgKeys |-> IF x = k THEN v ELSE "absent"]]

\* Configurations handed to InstantiateMCP.  A tag abstracts the value stored
\* under a key of config.Config: "url"/"empty" are strings, "nonstring" is a
\* number, "ok"/"badstep" are arrays (badstep: an element that is no object or
\* has no type), "nonarray" is a string, "degenerate" is
\* min_processing_time_ms >= max_processing_time_ms.
Configs ==
    { Cfg("mock", "m", TRUE, "none", "absent"),
      Cfg("mock", "m", FALSE, "processing_range", "degenerate"),
      Cfg("http", "h", FALSE, "base_url", "url"),
      Cfg("http", "h", FALSE, "base_url", "nonstring"),
      Cfg("http", "h", TRUE, "none", "absent"),
      Cfg("workflow", "w", FALSE, "steps", "badstep"),
      Cfg("workflow", "w", FALSE, "steps", "nonarray"),
      Cfg("", "x", TRUE, "none", "absent"),
      Cfg("mock", "", TRUE, "none", "absent"),
      Cfg("custom", "c", TRUE, "none", "absent") }

NoAgent ==
    [kind |-> "none", hazard |-> FALSE, status |-> "none", cur |-> "",
     ctx |-> EmptyCtx, done |-> 0, failed |-> 0]

NoMetrics ==
    [exists |-> FALSE, TasksExecuted |-> 0, TasksSuccessful |-> 0,
     TasksFailed |-> 0, ErrorCount |-> 0, rateNum |-> 0, rateDen |-> 1]

NoTask == [id |-> "", type |-> "", hasCtx |-> FALSE, ctx |-> EmptyCtx]
NoRes == [kind |-> "none", taskId |-> "", success |-> FALSE, err |-> "", resErr |-> "", agent |-> 0]
NoSys == [total |-> 0, completed |-> 0, failed |-> 0]

\* coord: the goroutine is inside CoordinateAgents, called with the agent
\* handles in `handles`
IdleProc ==
    [pc |-> "idle", task |-> NoTask, domain |-> FALSE, scanned |-> {},
     sel |-> 0, out |-> "", locSys |-> NoSys, locAg |-> NoMetrics, res |-> NoRes,
     coord |-> FALSE, handles |-> << >>]

\* late: the task in hand was already Cancelled when it was received
NoWorker == [pc |-> "none", gen |-> 0, rec |-> 0, late |-> FALSE]

NoShare ==
    [pc |-> "idle", from |-> 0, to |-> 0, keys |-> {}, snap |-> EmptyCtx, err |-> ""]


----------------------------------------------------------------------------
VARIABLES
    agents,        \* orchestrator.agents: the IDs in the registry
    agent,         \* the agent objects ever constructed, by ID (baseAgent fields)
    metrics,       \* orchestrator.metrics (SystemMetrics)
    agentMetrics,  \* orchestrator.agentMetrics
    proc,          \* goroutines inside ExecuteTask / ExecuteTaskDomain
    share,         \* the goroutine inside ShareContext
    calls,         \* number of ExecuteTask/ExecuteTaskDomain calls begun by callers
    lastErr,       \* the error returned by the last registry or task-manager call
    crashed,       \* an unrecovered panic has terminated the process
    tmRunning,     \* taskManager.ctx != nil (and cancel != nil)
    tmGen,         \* number of successful Start calls
    qClosed,       \* close(taskQueue) has been executed
    queue,         \* taskManager.taskQueue: task objects in the channel buffer
    recs,          \* the AsyncTask objects handed to SubmitTask, in submission order
    stats,         \* taskManager.stats
    worker,        \* the taskWorker goroutines
    maxQueueSize,  \* taskManager.maxQueueSize: capacity of taskQueue
    enqueued,      \* history: the tasks sent on taskQueue, in order
    dequeued,      \* history: the tasks received from taskQueue, in order
    wf,            \* one workflowAgent.Execute call
    fac,           \* one ValidateConfig / CreateAgent exchange with the factory
    mockRun,       \* one mockAgent.Execute call
    httpRun,       \* one httpAgent.Execute call
    health,        \* the last IsHealthy call: the status it read and its answer
    listing,       \* the last ListTasks call: its filters, the matches in map order, its result
    adp            \* the adapter registry and the executeHTTPTask calls of adapter agents

orchVars == <<agents, agent, metrics, agentMetrics, proc, share, calls>>
tmVars == <<tmRunning, tmGen, qClosed, queue, recs, stats, worker,
            maxQueueSize, enqueued, dequeued>>
unitVars == <<wf, fac, mockRun, httpRun, health, listing, adp>>
vars == <<agents, agent, metrics, agentMetrics, proc, share, calls, lastErr, crashed,
          tmRunning, tmGen, qClosed, queue, recs, stats, worker,
          maxQueueSize, enqueued, dequeued, wf, fac, mockRun, httpRun, health, listing, adp>>

Procs == Callers \cup WorkerIds

----------------------------------------------------------------------------
(* Agent factory: internal/mcp/factory.go *)

GetSupportedTypes == {"ai", "http", "workflow", "adapter", "mock"}

validateAIConfig(c) ==
    IF c.isNil THEN "AI agent requires config"
    ELSE IF c.keys["openai_api_key"] = "absent" /\ c.keys["vertex_project"] = "absent"
         THEN "AI agent requires either openai_api_key or vertex_project"
         ELSE ""

validateHTTPConfig(c) ==
    IF c.isNil THEN "HTTP agent requires config"
    ELSE IF c.keys["base_url"] = "absent" THEN "HTTP agent requires base_url in config"
    ELSE IF c.keys["base_url"] \notin {"url", "empty"} THEN "base_url must be a string"
    ELSE ""

validateWorkflowConfig(c) ==
    IF c.isNil THEN "Workflow agent requires config"
    ELSE IF c.keys["steps"] = "absent" THEN "Workflow agent requires steps in config"
    ELSE IF c.keys["steps"] \notin {"ok", "badstep"} THEN "steps must be an array"
    ELSE ""

ValidateConfig(c) ==
    IF c.type = "" THEN "agent type is required"
    ELSE IF c.name = "" THEN "agent name is required"
    ELSE IF c.type \notin GetSupportedTypes THEN "unsupported agent type"
    ELSE CASE c.type = "ai" -> validateAIConfig(c)
           [] c.type = "http" -> validateHTTPConfig(c)
           [] c.type = "workflow" -> validateWorkflowConfig(c)
           [] OTHER -> ""

\* parseWorkflowSteps: "" when every step parses, else the error
parseWorkflowSteps(c) ==
    IF c.isNil \/ c.keys["steps"] = "absent" THEN "workflow config must contain 'steps'"
    ELSE IF c.keys["steps"] \notin {"ok", "badstep"} THEN "steps must be an array"
    ELSE IF c.keys["steps"] = "badstep" THEN "step must be an object with a type"
    ELSE ""

\* newBaseAgent plus the variant constructor: the fresh agent object
newBaseAgent(c, hz) ==
    [kind |-> c.type, hazard |-> hz, status |-> AgentStatusIdle, cur |-> "",
     ctx |-> EmptyCtx, done |-> 0, failed |-> 0]

\* variant: an unknown type silently yields a mock agent
CreateAgentDefaultsToMock(c) ==
    CASE c.type = "ai" -> [err |-> "", obj |-> newBaseAgent(c, FALSE)]
      [] c.type = "http" ->
            [err |-> "", obj |-> newBaseAgent(c, c.isNil \/ c.keys["base_url"] # "url")]
      [] c.type = "workflow" ->
            IF parseWorkflowSteps(c) # ""
            THEN [err |-> "failed to parse workflow steps", obj |-> NoAgent]
            ELSE [err |-> "", obj |-> newBaseAgent(c, FALSE)]
      [] c.type = "adapter" -> [err |-> "", obj |-> newBaseAgent(c, FALSE)]
      [] c.type = "mock" ->
            [err |-> "",
             obj |-> newBaseAgent(c, (~c.isNil) /\ c.keys["processing_range"] = "degenerate")]
      [] OTHER -> [err |-> "", obj |-> newBaseAgent(c, FALSE)]

\* CreateAgent: [err, obj]
CreateAgent(c) ==
    CASE c.type = "ai" -> [err |-> "", obj |-> newBaseAgent(c, FALSE)]
      [] c.type = "http" ->
            [err |-> "", obj |-> newBaseAgent(c, c.isNil \/ c.keys["base_url"] # "url")]
      [] c.type = "workflow" ->
            IF parseWorkflowSteps(c) # ""
            THEN [err |-> "failed to parse workflow steps", obj |-> NoAgent]
            ELSE [err |-> "", obj |-> newBaseAgent(c, FALSE)]
      [] c.type = "adapter" -> [err |-> "", obj |-> newBaseAgent(c, FALSE)]
      [] c.type = "mock" ->
            [err |-> "",
             obj |-> newBaseAgent(c, (~c.isNil) /\ c.keys["processing_range"] = "degenerate")]
      [] OTHER -> [err |-> "unsupported agent type", obj |-> NoAgent]

----------------------------------------------------------------------------
(* Agent variants *)

\* CanHandle of each variant (the adapter agent with an empty adapter registry)
CanHandle(ag, taskType) ==
    CASE ag.kind = "mock" -> TRUE
      [] ag.kind = "http" -> taskType \in {"http_request", "api_call", "webhook", "integration",
                                           "get", "post", "put", "patch", "delete"}
      [] ag.kind = "workflow" -> taskType \in {"workflow", "sequence", "orchestration",
                                               "automation", "pipeline", "process"}
      [] ag.kind = "ai" -> taskType \in {"text_generation", "conversation", "analysis",
                                         "summarization", "ai", "openai", "gpt", "chat"}
      [] ag.kind = "adapter" -> taskType \in {"http_request", "api_call", "webhook", "integration",
                                              "create_adapter", "list_adapters", "adapter_health"}
      [] OTHER -> FALSE

\* variant: unhealthy only when terminated
IsHealthyUnlessTerminated(ag) ==
    IF ag.status = AgentStatusTerminated THEN FALSE ELSE TRUE

IsHealthy(ag) ==
    IF ag.status = AgentStatusTerminated THEN FALSE
    ELSE IF ag.status \in {AgentStatusIdle, AgentStatusBusy} THEN TRUE
    ELSE FALSE

\* What one Execute of the variant can produce: "ok" is (Success=true, nil),
\* "fail_err" is (Success=false, err), "fail_noerr" is (Success=false, nil),
\* "panic" is a run-time panic inside Execute.
Outcomes(ag) ==
    CASE ag.kind = "mock" -> IF ag.hazard THEN {"panic"} ELSE {"ok", "fail_err"}
      [] ag.kind = "http" -> {"ok", "fail_noerr", "fail_err"}
                                \cup (IF ag.hazard THEN {"panic"} ELSE {})
      [] ag.kind = "workflow" -> {"ok", "fail_err"}
      [] ag.kind = "ai" -> {"ok", "fail_err"}
      [] ag.kind = "adapter" -> {"ok", "fail_noerr", "fail_err"}
      [] OTHER -> {}

\* baseAgent.updateMetrics
updateMetrics(ag, success) ==
    IF success THEN [ag EXCEPT !.done = @ + 1] ELSE [ag EXCEPT !.failed = @ + 1]

\* baseAgent.SetContext: the agent's context is replaced by a copy of ctx
\* variant: merges the new keys into the stored context instead of replacing it
SetContextMerging(ag, ctx) ==
    [ag EXCEPT !.ctx = [k \in Keys |-> IF ctx[k] # Absent THEN ctx[k] ELSE @[k]]]

SetContext(ag, ctx) == [ag EXCEPT !.ctx = ctx]

\* baseAgent.GetContext
GetContext(ag) == ag.ctx

\* baseAgent.Stop
AgentStop(ag) == [ag EXCEPT !.status = AgentStatusTerminated, !.cur = ""]

----------------------------------------------------------------------------
(* Single Execute calls and factory exchanges, followed statement by statement *)

\* WorkflowStep.OnError as parseWorkflowSteps leaves it ("" when on_error is unset)
OnErrorValues == {"", "stop", "continue", "retry"}

\* Step types by what executeStep can return: "log" never fails, "transform"
\* without an operation always fails, "delay" fails when its context ends first
StepTypes == {"log", "transform", "delay"}

WorkflowSteps == [type : StepTypes, on_error : OnErrorValues]

Workflows == UNION {[1..n -> WorkflowSteps] : n \in 0..MaxSteps}

NoRet == [success |-> FALSE, err |-> "", failed_at_step |-> 0, completed_steps |-> << >>,
          steps_executed |-> << >>]

NoWf == [pc |-> "idle", steps |-> << >>, i |-> 0, results |-> << >>, calls |-> << >>,
         ret |-> NoRet]

\* the values a key of config.Config takes in the configurations tried on the factory
CfgValues(k) ==
    CASE k = "base_url" -> {"url", "empty", "nonstring"}
      [] k = "steps" -> {"ok", "badstep", "nonarray"}
      [] k = "openai_api_key" -> {"key"}
      [] k = "vertex_project" -> {"project"}
      [] k = "processing_range" -> {"degenerate"}

ConfigTypes == {"ai", "http", "workflow", "adapter", "mock", "custom", ""}

\* Configurations tried on the factory: every type, with and without a name,
\* with a nil map, an empty map, or a map holding one key
FactoryConfigs ==
    {Cfg(t, n, nl, "none", "absent") : t \in ConfigTypes, n \in {"", "n"}, nl \in BOOLEAN}
    \cup UNION {{Cfg(t, n, FALSE, k, v) : t \in ConfigTypes, n \in {"", "n"}, v \in CfgValues(k)}
                : k \in CfgKeys}

NoFac == [pc |-> "idle", cfg |-> Cfg("", "", TRUE, "none", "absent"), verr |-> "",
          cerr |-> "", agent |-> NoAgent]

\* rand.Float64() yields k / RandDenom for k in 0..RandDenom-1, never 1.0
RandDenom == 20
RandFloats == 0..(RandDenom - 1)

\* a numeric key of the mock's config: absent, not a float64, or a float64
KeyAbsent == [kind |-> "absent", val |-> 0]
NonFloat == [kind |-> "other", val |-> 0]
Float(v) == [kind |-> "float", val |-> v]

\* failure_rate in units of 1 / RandDenom: 0.0, 0.05 and 1.0
FailureRateValues == {KeyAbsent, NonFloat, Float(0), Float(1), Float(RandDenom)}
DefaultFailureRate == 1
DefaultMinMs == 100
DefaultMaxMs == 2000
ProcessingTimeValues == {KeyAbsent, NonFloat, Float(0), Float(50)}
MockConfigs ==
    [failure_rate : FailureRateValues,
     min_processing_time_ms : ProcessingTimeValues,
     max_processing_time_ms : ProcessingTimeValues]

NoMockRun == [pc |-> "idle",
              cfg |-> [failure_rate |-> KeyAbsent, min_processing_time_ms |-> KeyAbsent,
                       max_processing_time_ms |-> KeyAbsent],
              rnd |-> 0, success |-> FALSE, err |-> ""]

\* base_url of a validated HTTP agent: any string, the empty one included
BaseURLs == {"", "https://example.test", "https://example.test/"}
Endpoints == {"", "/status", "status"}
\* task.Input["method"]: a valid token, or one http.NewRequestWithContext rejects
Methods == {"GET", "GE T"}
\* resp.StatusCode values returned by client.Do
StatusCodes == {101, 200, 204, 299, 300, 404, 500}

\* no IsHealthy call has returned yet
NoHealth == [agent |-> 0, status |-> "none", healthy |-> FALSE]

NoHttpRun == [pc |-> "idle", baseURL |-> "", endpoint |-> "", method |-> "GET",
              StatusCode |-> 0,
              ret |-> [success |-> FALSE, has_status_code |-> FALSE, status_code |-> 0,
                       err |-> ""]]

----------------------------------------------------------------------------
InitWith(queueSize) ==
    /\ agents = {}
    /\ agent = [a \in AgentIds |-> NoAgent]
    /\ metrics = [TotalAgents |-> 0, ActiveAgents |-> 0, TotalTasks |-> 0,
                  CompletedTasks |-> 0, FailedTasks |-> 0]
    /\ agentMetrics = [a \in AgentIds |-> NoMetrics]
    /\ proc = [p \in Procs |-> IdleProc]
    /\ share = NoShare
    /\ calls = 0
    /\ lastErr = ""
    /\ crashed = FALSE
    /\ tmRunning = FALSE
    /\ tmGen = 0
    /\ qClosed = FALSE
    /\ queue = << >>
    /\ recs = << >>
    /\ stats = [TotalTasks |-> 0, PendingTasks |-> 0, RunningTasks |-> 0,
                CompletedTasks |-> 0, FailedTasks |-> 0, CancelledTasks |-> 0]
    /\ worker = [w \in WorkerIds |-> NoWorker]
    /\ maxQueueSize = queueSize
    /\ enqueued = << >>
    /\ dequeued = << >>
    /\ wf = NoWf
    /\ fac = NoFac
    /\ mockRun = NoMockRun
    /\ httpRun = NoHttpRun
    /\ health = NoHealth
    /\ listing = [called |-> FALSE,
                  f |-> [status |-> "", type |-> "", from |-> 0, to |-> 0,
                         Offset |-> 0, Limit |-> 0],
                  all |-> << >>, result |-> << >>]
    /\ adp = [adapters |-> {},
              run |-> [e \in Callers |-> [pc |-> "idle", type |-> "", success |-> FALSE,
                                          err |-> ""]]]

Init == InitWith(MaxQueueSize)

\* the task manager built with room for FifoQueueSize queued tasks
InitFifo == InitWith(FifoQueueSize)

\* goroutines holding orchestrator.mu for reading (ExecuteTask and
\* ExecuteTaskDomain hold it from entry to return)
Readers == {p \in Procs : proc[p].pc \notin {"idle", "done"} /\ ~proc[p].coord}

Created == {a \in AgentIds : agent[a].kind # "none"}

----------------------------------------------------------------------------
(* Orchestrator: registry operations (they hold orchestrator.mu for writing, *)
(* so they wait until no ExecuteTask/ExecuteTaskDomain is in progress)       *)

\* baseAgent.Start
AgentStart(ag) == [ag EXCEPT !.status = AgentStatusIdle]

\* variant: constructs the agent without validating the configuration
InstantiateMCPUnvalidated(c) ==
    /\ ~crashed
    /\ Readers = {}
    /\ LET cr == CreateAgent(c)
           id == Cardinality(Created) + 1
       IN  IF cr.err # ""
           THEN /\ lastErr' = "failed to create agent"
                /\ UNCHANGED <<agents, agent, metrics>>
           ELSE /\ id <= MaxAgents
                /\ agent' = [agent EXCEPT ![id] = AgentStart(cr.obj)]
                /\ agents' = agents \cup {id}
                /\ metrics' = [metrics EXCEPT !.TotalAgents = @ + 1, !.ActiveAgents = @ + 1]
                /\ lastErr' = ""
    /\ UNCHANGED <<agentMetrics, proc, share, calls, crashed>>
    /\ UNCHANGED tmVars
    /\ UNCHANGED unitVars

InstantiateMCP(c) ==
    /\ ~crashed
    /\ Readers = {}
    /\ LET v == ValidateConfig(c)
           cr == CreateAgent(c)
           id == Cardinality(Created) + 1
       IN  IF v # ""
           THEN /\ lastErr' = "invalid MCP config"
                /\ UNCHANGED <<agents, agent, metrics>>
           ELSE IF cr.err # ""
           THEN /\ lastErr' = "failed to create agent"
                /\ UNCHANGED <<agents, agent, metrics>>
           ELSE /\ id <= MaxAgents
                /\ agent' = [agent EXCEPT ![id] = AgentStart(cr.obj)]
                /\ agents' = agents \cup {id}
                /\ metrics' = [metrics EXCEPT !.TotalAgents = @ + 1, !.ActiveAgents = @ + 1]
                /\ lastErr' = ""
    /\ UNCHANGED <<agentMetrics, proc, share, calls, crashed>>
    /\ UNCHANGED tmVars
    /\ UNCHANGED unitVars

\* variant: stops the agent but leaves its registry entry in place
TerminateAgentKeepsEntry(id) ==
    /\ ~crashed
    /\ Readers = {}
    /\ IF id \notin agents
       THEN /\ lastErr' = "agent not found"
            /\ UNCHANGED <<agents, agent, metrics>>
       ELSE /\ agent' = [agent EXCEPT ![id] = AgentStop(@)]
            /\ UNCHANGED <<agents, metrics>>
            /\ lastErr' = ""
    /\ UNCHANGED <<agentMetrics, proc, share, calls, crashed>>
    /\ UNCHANGED tmVars
    /\ UNCHANGED unitVars

TerminateAgent(id) ==
    /\ ~crashed
    /\ Readers = {}
    /\ IF id \notin agents
       THEN /\ lastErr' = "agent not found"
            /\ UNCHANGED <<agents, agent, metrics>>
       ELSE /\ agent' = [agent EXCEPT ![id] = AgentStop(@)]
            /\ agents' = agents \ {id}
            /\ metrics' = [metrics EXCEPT !.ActiveAgents = @ - 1]
            /\ lastErr' = ""
    /\ UNCHANGED <<agentMetrics, proc, share, calls, crashed>>
    /\ UNCHANGED tmVars
    /\ UNCHANGED unitVars

\* variant: stops the agents but leaves the registry as it is
OrchestratorStopKeepsRegistry ==
    /\ ~crashed
    /\ Readers = {}
    /\ agent' = [a \in AgentIds |-> IF a \in agents THEN AgentStop(agent[a]) ELSE agent[a]]
    /\ lastErr' = ""
    /\ UNCHANGED <<agents, metrics, agentMetrics, proc, share, calls, crashed>>
    /\ UNCHANGED tmVars
    /\ UNCHANGED unitVars

\* orchestrator.Stop: every registered agent is stopped (baseAgent.Stop
\* returns no error) and the registry is replaced by an empty map
OrchestratorStop ==
    /\ ~crashed
    /\ Readers = {}
    /\ agent' = [a \in AgentIds |-> IF a \in agents THEN AgentStop(agent[a]) ELSE agent[a]]
    /\ agents' = {}
    /\ metrics' = [metrics EXCEPT !.ActiveAgents = 0]
    /\ lastErr' = ""
    /\ UNCHANGED <<agentMetrics, proc, share, calls, crashed>>
    /\ UNCHANGED tmVars
    /\ UNCHANGED unitVars

\* GetAgent: "" when the ID is registered
GetAgent(id) == IF id \in agents THEN "" ELSE "agent not found"

PassContext(id, ctx) ==
    /\ ~crashed
    /\ agent' = IF GetAgent(id) # "" THEN agent
                ELSE [agent EXCEPT ![id] = SetContext(@, ctx)]
    /\ UNCHANGED <<agents, metrics, agentMetrics, proc, share, calls, lastErr, crashed>>
    /\ UNCHANGED tmVars
    /\ UNCHANGED unitVars

----------------------------------------------------------------------------
(* The Agent interface used directly on an agent obtained from GetAgent:     *)
(* these calls take the agent's own mutex and not orchestrator.mu            *)

AgentStatuses ==
    {AgentStatusIdle, AgentStatusBusy, AgentStatusError, AgentStatusTerminated}

\* baseAgent.Start on a registered agent
ClientStart(a) ==
    /\ ~crashed
    /\ a \in agents
    /\ agent' = [agent EXCEPT ![a] = AgentStart(@)]
    /\ UNCHANGED <<agents, metrics, agentMetrics, proc, share, calls, lastErr, crashed>>
    /\ UNCHANGED tmVars
    /\ UNCHANGED unitVars

\* baseAgent.Stop on a registered agent
ClientStop(a) ==
    /\ ~crashed
    /\ a \in agents
    /\ agent' = [agent EXCEPT ![a] = AgentStop(@)]
    /\ UNCHANGED <<agents, metrics, agentMetrics, proc, share, calls, lastErr, crashed>>
    /\ UNCHANGED tmVars
    /\ UNCHANGED unitVars

\* baseAgent.UpdateState: the stored state is replaced by the one given (the
\* caller passes back the agent's metrics and context, with a status and a
\* current task of its choosing)
UpdateState(a, status, cur) ==
    /\ ~crashed
    /\ a \in agents
    /\ agent' = [agent EXCEPT ![a].status = status, ![a].cur = cur]
    /\ UNCHANGED <<agents, metrics, agentMetrics, proc, share, calls, lastErr, crashed>>
    /\ UNCHANGED tmVars
    /\ UNCHANGED unitVars

\* baseAgent.IsHealthy called by MCPHandler.GetAgent
GetAgentHealthy(a) ==
    /\ ~crashed
    /\ a \in agents
    /\ health' = [agent |-> a, status |-> agent[a].status, healthy |-> IsHealthy(agent[a])]
    /\ UNCHANGED <<orchVars, tmVars, lastErr, crashed, wf, fac, mockRun, httpRun, listing, adp>>

----------------------------------------------------------------------------
(* Orchestrator.ShareContext: four critical sections *)

\* the filtered copy built by ShareContext
sharedContext(fromContext, keys) ==
    [k \in Keys |-> IF k \in keys THEN fromContext[k] ELSE Absent]

ShareLookupFrom(from, to, keys) ==
    /\ ~crashed
    /\ share.pc = "idle"
    /\ share' = IF GetAgent(from) # ""
                THEN [NoShare EXCEPT !.pc = "done", !.from = from, !.to = to, !.keys = keys,
                                     !.err = "source agent not found"]
                ELSE [NoShare EXCEPT !.pc = "lookup_to", !.from = from, !.to = to, !.keys = keys]
    /\ UNCHANGED <<agents, agent, metrics, agentMetrics, proc, calls, lastErr, crashed>>
    /\ UNCHANGED tmVars
    /\ UNCHANGED unitVars

ShareLookupTo ==
    /\ ~crashed
    /\ share.pc = "lookup_to"
    /\ share' = IF GetAgent(share.to) # ""
                THEN [share EXCEPT !.pc = "done", !.err = "target agent not found"]
                ELSE [share EXCEPT !.pc = "read"]
    /\ UNCHANGED <<agents, agent, metrics, agentMetrics, proc, calls, lastErr, crashed>>
    /\ UNCHANGED tmVars
    /\ UNCHANGED unitVars

ShareRead ==
    /\ ~crashed
    /\ share.pc = "read"
    /\ share' = [share EXCEPT !.pc = "write", !.snap = GetContext(agent[share.from])]
    /\ UNCHANGED <<agents, agent, metrics, agentMetrics, proc, calls, lastErr, crashed>>
    /\ UNCHANGED tmVars
    /\ UNCHANGED unitVars

ShareWrite ==
    /\ ~crashed
    /\ share.pc = "write"
    /\ agent' = [agent EXCEPT ![share.to] = SetContext(@, sharedContext(share.snap, share.keys))]
    /\ share' = [share EXCEPT !.pc = "done"]
    /\ UNCHANGED <<agents, metrics, agentMetrics, proc, calls, lastErr, crashed>>
    /\ UNCHANGED tmVars
    /\ UNCHANGED unitVars

ShareReturn ==
    /\ ~crashed
    /\ share.pc = "done"
    /\ share' = NoShare
    /\ UNCHANGED <<agents, agent, metrics, agentMetrics, proc, calls, lastErr, crashed>>
    /\ UNCHANGED tmVars
    /\ UNCHANGED unitVars

----------------------------------------------------------------------------
(* Orchestrator.ExecuteTask and ExecuteTaskDomain, one goroutine p *)

\* variant: selects a capable, healthy agent without reading its status
EligibleAnyStatus(a, taskType) ==
    /\ CanHandle(agent[a], taskType)
    /\ IsHealthy(agent[a])

Eligible(a, taskType) ==
    /\ CanHandle(agent[a], taskType)
    /\ IsHealthy(agent[a])
    /\ agent[a].status = AgentStatusIdle

\* entry: RLock
BeginExecute(p, task, dom) ==
    /\ ~crashed
    /\ p \in Callers
    /\ proc[p].pc = "idle"
    /\ calls < MaxCalls
    /\ calls' = calls + 1
    /\ proc' = [proc EXCEPT ![p] = [IdleProc EXCEPT !.pc = "scan", !.task = task, !.domain = dom]]
    /\ UNCHANGED <<agents, agent, metrics, agentMetrics, share, lastErr, crashed>>
    /\ UNCHANGED tmVars
    /\ UNCHANGED unitVars

\* one iteration of the selection loop over the registry (map order)
ScanAgent(p, a) ==
    /\ ~crashed
    /\ proc[p].pc = "scan"
    /\ a \in agents \ proc[p].scanned
    /\ proc' = IF Eligible(a, proc[p].task.type)
               THEN [proc EXCEPT ![p].sel = a, ![p].scanned = {},
                                 ![p].pc = IF proc[p].domain /\ proc[p].task.hasCtx
                                           THEN "setctx" ELSE "exec"]
               ELSE [proc EXCEPT ![p].scanned = @ \cup {a}]
    /\ UNCHANGED <<agents, agent, metrics, agentMetrics, share, calls, lastErr, crashed>>
    /\ UNCHANGED tmVars
    /\ UNCHANGED unitVars

\* the loop ended with selectedAgent == nil
NoSuitableAgent(p) ==
    /\ ~crashed
    /\ proc[p].pc = "scan"
    /\ agents \ proc[p].scanned = {}
    /\ proc' = [proc EXCEPT ![p].pc = "done", ![p].scanned = {},
                            ![p].res = [kind |-> "result", taskId |-> proc[p].task.id,
                                        success |-> FALSE,
                                        err |-> "no suitable agent found",
                                        resErr |-> "no suitable agent available",
                                        agent |-> 0]]
    /\ UNCHANGED <<agents, agent, metrics, agentMetrics, share, calls, lastErr, crashed>>
    /\ UNCHANGED tmVars
    /\ UNCHANGED unitVars

\* ExecuteTaskDomain: selectedAgent.SetContext(task.Context)
PushTaskContext(p) ==
    /\ ~crashed
    /\ proc[p].pc = "setctx"
    /\ agent' = [agent EXCEPT ![proc[p].sel] = SetContext(@, proc[p].task.ctx)]
    /\ proc' = [proc EXCEPT ![p].pc = "exec"]
    /\ UNCHANGED <<agents, metrics, agentMetrics, share, calls, lastErr, crashed>>
    /\ UNCHANGED tmVars
    /\ UNCHANGED unitVars

Failed(o) == o # "ok"
\* the error value and the Result.Error text an outcome carries
ErrOf(o) == IF o = "fail_err" THEN "agent error" ELSE ""
ResultError(o) == IF o = "ok" THEN "" ELSE "agent failure"

\* Agent.Execute, first critical section: status Busy, currentTask set
ExecuteStart(p) ==
    /\ ~crashed
    /\ proc[p].pc = "exec"
    /\ agent' = [agent EXCEPT ![proc[p].sel].status = AgentStatusBusy,
                              ![proc[p].sel].cur = proc[p].task.id]
    /\ proc' = [proc EXCEPT ![p].pc = "run"]
    /\ UNCHANGED <<agents, metrics, agentMetrics, share, calls, lastErr, crashed>>
    /\ UNCHANGED tmVars
    /\ UNCHANGED unitVars

\* Agent.Execute, the work and updateMetrics (skipped when the work panics)
ExecuteRun(p, o) ==
    /\ ~crashed
    /\ proc[p].pc = "run"
    /\ o \in Outcomes(agent[proc[p].sel])
    /\ agent' = IF o = "panic" THEN agent
                ELSE [agent EXCEPT ![proc[p].sel] = updateMetrics(@, o = "ok")]
    /\ proc' = [proc EXCEPT ![p].pc = "defer", ![p].out = o]
    /\ UNCHANGED <<agents, metrics, agentMetrics, share, calls, lastErr, crashed>>
    /\ UNCHANGED tmVars
    /\ UNCHANGED unitVars

\* Agent.Execute, the deferred function: status Idle, currentTask cleared.
\* A panic then unwinds through the orchestrator (RUnlock is deferred): gin's
\* Recovery middleware absorbs it in a request handler.
ExecuteDefer(p) ==
    /\ ~crashed
    /\ proc[p].pc = "defer"
    /\ agent' = [agent EXCEPT ![proc[p].sel].status = AgentStatusIdle,
                              ![proc[p].sel].cur = ""]
    /\ IF proc[p].out = "panic"
       THEN /\ proc' = [proc EXCEPT ![p].pc = "done",
                                    ![p].res = [kind |-> "panic", taskId |-> "", success |-> FALSE,
                                                err |-> "panic", resErr |-> "",
                                                agent |-> proc[p].sel]]
            /\ crashed' = (p \notin Callers)
       ELSE /\ proc' = IF proc[p].coord
                        THEN [proc EXCEPT ![p].pc = "done",
                                          ![p].res = [kind |-> "result", taskId |-> proc[p].task.id,
                                                      success |-> (proc[p].out = "ok"),
                                                      err |-> ErrOf(proc[p].out),
                                                      resErr |-> ResultError(proc[p].out),
                                                      agent |-> proc[p].sel]]
                        ELSE [proc EXCEPT ![p].pc = "metrics_rd"]
            /\ UNCHANGED crashed
    /\ UNCHANGED <<agents, metrics, agentMetrics, share, calls, lastErr>>
    /\ UNCHANGED tmVars
    /\ UNCHANGED unitVars

\* The counters are updated while orchestrator.mu is held for reading only:
\* an increment is a load followed by a store.
MetricsLoad(p) ==
    /\ ~crashed
    /\ proc[p].pc = "metrics_rd"
    /\ proc' = IF proc[p].domain
               THEN [proc EXCEPT ![p].pc = "metrics_wr", ![p].locAg = agentMetrics[proc[p].sel]]
               ELSE [proc EXCEPT ![p].pc = "metrics_wr",
                                 ![p].locSys = [total |-> metrics.TotalTasks,
                                                completed |-> metrics.CompletedTasks,
                                                failed |-> metrics.FailedTasks]]
    /\ UNCHANGED <<agents, agent, metrics, agentMetrics, share, calls, lastErr, crashed>>
    /\ UNCHANGED tmVars
    /\ UNCHANGED unitVars

\* ExecuteTask: o.metrics.TotalTasks++ and CompletedTasks++ / FailedTasks++
ExecuteTaskFinish(p) ==
    /\ ~crashed
    /\ proc[p].pc = "metrics_wr"
    /\ ~proc[p].domain
    /\ LET l == proc[p].locSys
           o == proc[p].out
       IN  /\ metrics' = [metrics EXCEPT
                            !.TotalTasks = l.total + 1,
                            !.FailedTasks = IF Failed(o) THEN l.failed + 1 ELSE @,
                            !.CompletedTasks = IF Failed(o) THEN @ ELSE l.completed + 1]
           /\ proc' = [proc EXCEPT ![p].pc = "done", ![p].locSys = NoSys,
                                   ![p].res = [kind |-> "result", taskId |-> proc[p].task.id,
                                               success |-> (o = "ok"), err |-> ErrOf(o),
                                               resErr |-> ResultError(o),
                                               agent |-> proc[p].sel]]
    /\ UNCHANGED <<agents, agent, agentMetrics, share, calls, lastErr, crashed>>
    /\ UNCHANGED tmVars
    /\ UNCHANGED unitVars

\* ExecuteTaskDomain: the per-agent metrics record
ExecuteTaskDomainFinish(p) ==
    /\ ~crashed
    /\ proc[p].pc = "metrics_wr"
    /\ proc[p].domain
    /\ LET l == proc[p].locAg
           o == proc[p].out
           a == proc[p].sel
       IN  /\ agentMetrics' =
                [agentMetrics EXCEPT ![a] =
                    IF Failed(o)
                    THEN [l EXCEPT !.exists = TRUE, !.TasksExecuted = @ + 1,
                                   !.TasksFailed = @ + 1, !.ErrorCount = @ + 1]
                    ELSE [l EXCEPT !.exists = TRUE, !.TasksExecuted = @ + 1,
                                   !.TasksSuccessful = @ + 1,
                                   !.rateNum = l.TasksSuccessful + 1,
                                   !.rateDen = l.TasksExecuted + 1]]
           /\ proc' = [proc EXCEPT ![p].pc = "done", ![p].locAg = NoMetrics,
                                   ![p].res = [kind |-> "result", taskId |-> proc[p].task.id,
                                               success |-> (o = "ok"), err |-> ErrOf(o),
                                               resErr |-> ResultError(o),
                                               agent |-> a]]
    /\ UNCHANGED <<agents, agent, metrics, share, calls, lastErr, crashed>>
    /\ UNCHANGED tmVars
    /\ UNCHANGED unitVars

\* variant: a single agent is used only when it is healthy and capable
CoordinateAgentsChecksSingle(p, handles, task) ==
    /\ ~crashed
    /\ p \in Callers
    /\ proc[p].pc = "idle"
    /\ calls < MaxCalls
    /\ calls' = calls + 1
    /\ LET ok == {i \in 1..Len(handles) :
                     IsHealthy(agent[handles[i]]) /\ CanHandle(agent[handles[i]], task.type)}
           call == [IdleProc EXCEPT !.coord = TRUE, !.handles = handles, !.task = task]
           refuse(e, re) == [call EXCEPT !.pc = "done",
                                         !.res = [kind |-> "result", taskId |-> task.id,
                                                  success |-> FALSE, err |-> e, resErr |-> re,
                                                  agent |-> 0]]
       IN  proc' = [proc EXCEPT ![p] =
                      IF handles = << >>
                      THEN refuse("no agents provided for coordination", "no agents provided")
                      ELSE IF ok = {}
                      THEN refuse("no healthy agent available for coordination",
                                  "no healthy agent available")
                      ELSE [call EXCEPT !.pc = "exec",
                                        !.sel = handles[CHOOSE i \in ok : \A j \in ok : i <= j]]]
    /\ UNCHANGED <<agents, agent, metrics, agentMetrics, share, lastErr, crashed>>
    /\ UNCHANGED tmVars
    /\ UNCHANGED unitVars

\* orchestrator.CoordinateAgents up to the Execute call; orchestrator.mu is
\* not taken and the handles are the caller's, registered or not. The loop
\* over several agents is taken as one step.
CoordinateAgents(p, handles, task) ==
    /\ ~crashed
    /\ p \in Callers
    /\ proc[p].pc = "idle"
    /\ calls < MaxCalls
    /\ calls' = calls + 1
    /\ LET ok == {i \in 1..Len(handles) :
                     IsHealthy(agent[handles[i]]) /\ CanHandle(agent[handles[i]], task.type)}
           call == [IdleProc EXCEPT !.coord = TRUE, !.handles = handles, !.task = task]
           refuse(e, re) == [call EXCEPT !.pc = "done",
                                         !.res = [kind |-> "result", taskId |-> task.id,
                                                  success |-> FALSE, err |-> e, resErr |-> re,
                                                  agent |-> 0]]
       IN  proc' = [proc EXCEPT ![p] =
                      IF handles = << >>
                      THEN refuse("no agents provided for coordination", "no agents provided")
                      ELSE IF Len(handles) = 1
                      THEN [call EXCEPT !.pc = "exec", !.sel = handles[1]]
                      ELSE IF ok = {}
                      THEN refuse("no healthy agent available for coordination",
                                  "no healthy agent available")
                      ELSE [call EXCEPT !.pc = "exec",
                                        !.sel = handles[CHOOSE i \in ok : \A j \in ok : i <= j]]]
    /\ UNCHANGED <<agents, agent, metrics, agentMetrics, share, lastErr, crashed>>
    /\ UNCHANGED tmVars
    /\ UNCHANGED unitVars

\* the caller takes the result
ReturnToCaller(p) ==
    /\ ~crashed
    /\ p \in Callers
    /\ proc[p].pc = "done"
    /\ proc' = [proc EXCEPT ![p] = IdleProc]
    /\ UNCHANGED <<agents, agent, metrics, agentMetrics, share, calls, lastErr, crashed>>
    /\ UNCHANGED tmVars
    /\ UNCHANGED unitVars

\* tasks without and with a task-scoped context
PlainTasks == [id : TaskIdSet, type : TaskTypes, hasCtx : {FALSE}, ctx : {EmptyCtx}]
CtxTasks == [id : TaskIdSet, type : TaskTypes, hasCtx : {TRUE}, ctx : CtxInputs]

\* the steps of a goroutine inside ExecuteTask / ExecuteTaskDomain
SelectAndExecute(p) ==
    \/ \E a \in AgentIds : ScanAgent(p, a)
    \/ NoSuitableAgent(p)
    \/ ExecuteStart(p)
    \/ \E o \in {"ok", "fail_err", "fail_noerr", "panic"} : ExecuteRun(p, o)
    \/ ExecuteDefer(p)
    \/ MetricsLoad(p)

\* one step of a caller inside ExecuteTask or ExecuteTaskDomain
Dispatch(p) ==
    \/ SelectAndExecute(p)
    \/ ExecuteTaskFinish(p)
    \/ ExecuteTaskDomainFinish(p)

----------------------------------------------------------------------------
(* Task manager: internal/services/task_manager.go *)

\* the priority the HTTP handlers give a task that names none
DefaultPriority == 5
Priorities == {1, DefaultPriority}

TaskStatusPending == "pending"
TaskStatusRunning == "running"
TaskStatusCompleted == "completed"
TaskStatusFailed == "failed"
TaskStatusCancelled == "cancelled"

\* taskManager.tasks: the object stored under an ID is the last one submitted
\* with it (0: no entry)
TaskTable(id) ==
    LET S == {i \in 1..Len(recs) : recs[i].id = id}
    IN  IF S = {} THEN 0 ELSE CHOOSE i \in S : \A j \in S : j <= i

\* the ID SubmitTask generates for a task without one ("task-<UnixNano>")
GeneratedID(n) == "task-" \o ToString(n)

\* IDs a caller can name
KnownIds == TaskIdSet \cup {GeneratedID(n) : n \in 1..MaxTasks}

\* the context handed to a worker is cancelled once Stop has run after the
\* Start that created the worker
CtxDone(w) == ~(tmRunning /\ worker[w].gen = tmGen)

Start ==
    /\ ~crashed
    /\ IF tmRunning
       THEN /\ lastErr' = "task manager already started"
            /\ UNCHANGED <<tmRunning, tmGen, worker>>
       ELSE /\ tmGen < MaxStarts
            /\ tmRunning' = TRUE
            /\ tmGen' = tmGen + 1
            /\ worker' = [w \in WorkerIds |->
                            IF w \in (tmGen * WorkerCount + 1)..((tmGen + 1) * WorkerCount)
                            THEN [pc |-> "wait", gen |-> tmGen + 1, rec |-> 0, late |-> FALSE]
                            ELSE worker[w]]
            /\ lastErr' = ""
    /\ UNCHANGED <<qClosed, queue, recs, stats, crashed>>
    /\ UNCHANGED orchVars
    /\ UNCHANGED unitVars
    /\ UNCHANGED <<maxQueueSize, enqueued, dequeued>>

\* close(tm.taskQueue) on a closed channel panics; nothing recovers it
Stop ==
    /\ ~crashed
    /\ tmRunning' = FALSE
    /\ IF qClosed
       THEN /\ crashed' = TRUE
            /\ lastErr' = "panic: close of closed channel"
            /\ UNCHANGED qClosed
       ELSE /\ qClosed' = TRUE
            /\ lastErr' = ""
            /\ UNCHANGED crashed
    /\ UNCHANGED <<tmGen, queue, recs, stats, worker>>
    /\ UNCHANGED orchVars
    /\ UNCHANGED unitVars
    /\ UNCHANGED <<maxQueueSize, enqueued, dequeued>>

\* variant: a manager that is not running stores the refused task as Failed
SubmitTaskStoresWhenStopped(id, type, priority) ==
    /\ ~crashed
    /\ IF ~tmRunning
       THEN /\ lastErr' = "task manager not started"
            /\ Len(recs) < MaxTasks
            /\ recs' = Append(recs, [id |-> IF id = "" THEN GeneratedID(Len(recs) + 1) ELSE id,
                                     type |-> type, priority |-> priority,
                                     status |-> TaskStatusFailed, error |-> "task manager not started",
                                     started |-> FALSE, completed |-> TRUE])
            /\ stats' = [stats EXCEPT !.TotalTasks = @ + 1, !.FailedTasks = @ + 1]
            /\ UNCHANGED <<queue, enqueued>>
       ELSE /\ Len(recs) < MaxTasks
            /\ LET n == Len(recs) + 1
                   task == [id |-> IF id = "" THEN GeneratedID(n) ELSE id, type |-> type,
                            priority |-> priority,
                            status |-> TaskStatusPending, error |-> "",
                            started |-> FALSE, completed |-> FALSE]
               IN  IF qClosed
                   THEN /\ recs' = Append(recs, task)
                        /\ stats' = [stats EXCEPT !.TotalTasks = @ + 1, !.PendingTasks = @ + 1]
                        /\ lastErr' = "panic: send on closed channel"
                        /\ UNCHANGED <<queue, enqueued>>
                   ELSE IF Len(queue) < maxQueueSize
                   THEN /\ recs' = Append(recs, task)
                        /\ stats' = [stats EXCEPT !.TotalTasks = @ + 1, !.PendingTasks = @ + 1]
                        /\ queue' = Append(queue, n)
                        /\ enqueued' = Append(enqueued, n)
                        /\ lastErr' = ""
                   ELSE /\ recs' = Append(recs, [task EXCEPT !.status = TaskStatusFailed,
                                                           !.error = "task queue is full",
                                                           !.completed = TRUE])
                        /\ stats' = [stats EXCEPT !.TotalTasks = @ + 1, !.FailedTasks = @ + 1]
                        /\ lastErr' = "task queue is full"
                        /\ UNCHANGED <<queue, enqueued>>
    /\ UNCHANGED <<tmRunning, tmGen, qClosed, worker, crashed>>
    /\ UNCHANGED orchVars
    /\ UNCHANGED unitVars
    /\ UNCHANGED <<maxQueueSize, dequeued>>

\* A send on a closed channel panics inside the select; the deferred Unlock
\* runs and gin's Recovery middleware absorbs the panic in the request handler.
SubmitTask(id, type, priority) ==
    /\ ~crashed
    /\ IF ~tmRunning
       THEN /\ lastErr' = "task manager not started"
            /\ UNCHANGED <<queue, enqueued, recs, stats>>
       ELSE /\ Len(recs) < MaxTasks
            /\ LET n == Len(recs) + 1
                   task == [id |-> IF id = "" THEN GeneratedID(n) ELSE id, type |-> type,
                            priority |-> priority,
                            status |-> TaskStatusPending, error |-> "",
                            started |-> FALSE, completed |-> FALSE]
               IN  IF qClosed
                   THEN /\ recs' = Append(recs, task)
                        /\ stats' = [stats EXCEPT !.TotalTasks = @ + 1, !.PendingTasks = @ + 1]
                        /\ lastErr' = "panic: send on closed channel"
                        /\ UNCHANGED <<queue, enqueued>>
                   ELSE IF Len(queue) < maxQueueSize
                   THEN /\ recs' = Append(recs, task)
                        /\ stats' = [stats EXCEPT !.TotalTasks = @ + 1, !.PendingTasks = @ + 1]
                        /\ queue' = Append(queue, n)
                        /\ enqueued' = Append(enqueued, n)
                        /\ lastErr' = ""
                   ELSE /\ recs' = Append(recs, [task EXCEPT !.status = TaskStatusFailed,
                                                           !.error = "task queue is full",
                                                           !.completed = TRUE])
                        /\ stats' = [stats EXCEPT !.TotalTasks = @ + 1, !.FailedTasks = @ + 1]
                        /\ lastErr' = "task queue is full"
                        /\ UNCHANGED <<queue, enqueued>>
    /\ UNCHANGED <<tmRunning, tmGen, qClosed, worker, crashed>>
    /\ UNCHANGED orchVars
    /\ UNCHANGED unitVars
    /\ UNCHANGED <<maxQueueSize, dequeued>>

\* variant: refuses only Completed tasks
CancelTaskCompletedOnly(id) ==
    /\ ~crashed
    /\ LET i == TaskTable(id)
       IN  IF i = 0
           THEN /\ lastErr' = "task not found"
                /\ UNCHANGED <<recs, stats>>
           ELSE IF recs[i].status = TaskStatusCompleted
           THEN /\ lastErr' = "cannot cancel completed task"
                /\ UNCHANGED <<recs, stats>>
           ELSE /\ stats.CancelledTasks < MaxCancels
                /\ recs' = [recs EXCEPT ![i].status = TaskStatusCancelled,
                                        ![i].completed = TRUE,
                                        ![i].error = "task cancelled by user"]
                /\ stats' = [stats EXCEPT !.CancelledTasks = @ + 1]
                /\ lastErr' = ""
    /\ UNCHANGED <<tmRunning, tmGen, qClosed, queue, worker, crashed>>
    /\ UNCHANGED orchVars
    /\ UNCHANGED unitVars
    /\ UNCHANGED <<maxQueueSize, enqueued, dequeued>>

\* The statistics are adjusted after the status has been overwritten, so
\* neither the Pending nor the Running branch is taken.
CancelTask(id) ==
    /\ ~crashed
    /\ LET i == TaskTable(id)
       IN  IF i = 0
           THEN /\ lastErr' = "task not found"
                /\ UNCHANGED <<recs, stats>>
           ELSE IF recs[i].status \in {TaskStatusCompleted, TaskStatusFailed}
           THEN /\ lastErr' = "cannot cancel completed task"
                /\ UNCHANGED <<recs, stats>>
           ELSE /\ stats.CancelledTasks < MaxCancels
                /\ recs' = [recs EXCEPT ![i].status = TaskStatusCancelled,
                                        ![i].completed = TRUE,
                                        ![i].error = "task cancelled by user"]
                /\ stats' = [stats EXCEPT
                               !.PendingTasks =
                                   IF TaskStatusCancelled = TaskStatusPending THEN @ - 1 ELSE @,
                               !.RunningTasks =
                                   IF TaskStatusCancelled # TaskStatusPending
                                      /\ TaskStatusCancelled = TaskStatusRunning
                                   THEN @ - 1 ELSE @,
                               !.CancelledTasks = @ + 1]
                /\ lastErr' = ""
    /\ UNCHANGED <<tmRunning, tmGen, qClosed, queue, worker, crashed>>
    /\ UNCHANGED orchVars
    /\ UNCHANGED unitVars
    /\ UNCHANGED <<maxQueueSize, enqueued, dequeued>>

\* taskWorker.run: the select takes any ready case
WorkerStop(w) ==
    /\ ~crashed
    /\ worker[w].pc = "wait"
    /\ CtxDone(w) \/ (qClosed /\ queue = << >>)
    /\ worker' = [worker EXCEPT ![w].pc = "exited"]
    /\ UNCHANGED <<tmRunning, tmGen, qClosed, queue, recs, stats, lastErr, crashed>>
    /\ UNCHANGED orchVars
    /\ UNCHANGED unitVars
    /\ UNCHANGED <<maxQueueSize, enqueued, dequeued>>

\* variant: the worker takes the queued task of highest priority, the
\* earliest one among equals
WorkerDequeueByPriority(w) ==
    /\ ~crashed
    /\ worker[w].pc = "wait"
    /\ queue # << >>
    /\ LET i == CHOOSE i \in 1..Len(queue) :
                  /\ \A j \in 1..Len(queue) :
                        recs[queue[j]].priority <= recs[queue[i]].priority
                  /\ \A j \in 1..(i - 1) :
                        recs[queue[j]].priority < recs[queue[i]].priority
       IN  /\ worker' = [worker EXCEPT ![w].pc = "dequeued", ![w].rec = queue[i],
                                       ![w].late = (recs[queue[i]].status = TaskStatusCancelled)]
           /\ queue' = SubSeq(queue, 1, i - 1) \o SubSeq(queue, i + 1, Len(queue))
           /\ dequeued' = Append(dequeued, queue[i])
    /\ UNCHANGED <<tmRunning, tmGen, qClosed, recs, stats, lastErr, crashed>>
    /\ UNCHANGED orchVars
    /\ UNCHANGED unitVars
    /\ UNCHANGED <<maxQueueSize, enqueued>>

WorkerDequeue(w) ==
    /\ ~crashed
    /\ worker[w].pc = "wait"
    /\ queue # << >>
    /\ worker' = [worker EXCEPT ![w].pc = "dequeued", ![w].rec = Head(queue),
                                ![w].late = (recs[Head(queue)].status = TaskStatusCancelled)]
    /\ queue' = Tail(queue)
    /\ dequeued' = Append(dequeued, Head(queue))
    /\ UNCHANGED <<tmRunning, tmGen, qClosed, recs, stats, lastErr, crashed>>
    /\ UNCHANGED orchVars
    /\ UNCHANGED unitVars
    /\ UNCHANGED <<maxQueueSize, enqueued>>

\* executeTask, first critical section, and the entry into ExecuteTaskDomain
WorkerMarkRunning(w) ==
    /\ ~crashed
    /\ worker[w].pc = "dequeued"
    /\ LET i == worker[w].rec
       IN  /\ recs' = [recs EXCEPT ![i].status = TaskStatusRunning, ![i].started = TRUE]
           /\ stats' = [stats EXCEPT !.PendingTasks = @ - 1, !.RunningTasks = @ + 1]
           /\ proc' = [proc EXCEPT ![w] =
                         [IdleProc EXCEPT !.pc = "scan", !.domain = TRUE,
                                          !.task = [id |-> recs[i].id, type |-> recs[i].type,
                                                    hasCtx |-> FALSE, ctx |-> EmptyCtx]]]
    /\ worker' = [worker EXCEPT ![w].pc = "call"]
    /\ UNCHANGED <<tmRunning, tmGen, qClosed, queue, lastErr, crashed>>
    /\ UNCHANGED <<agents, agent, metrics, agentMetrics, share, calls>>
    /\ UNCHANGED unitVars
    /\ UNCHANGED <<maxQueueSize, enqueued, dequeued>>

\* variant: only a returned error makes the task Failed
WorkerCompleteOnErrOnly(w) ==
    /\ ~crashed
    /\ worker[w].pc = "call"
    /\ proc[w].pc = "done"
    /\ LET i == worker[w].rec
           r == proc[w].res
       IN  IF r.err # ""
           THEN /\ recs' = [recs EXCEPT ![i].status = TaskStatusFailed,
                                        ![i].completed = TRUE,
                                        ![i].error = IF r.err # "" THEN r.err ELSE r.resErr]
                /\ stats' = [stats EXCEPT !.RunningTasks = @ - 1, !.FailedTasks = @ + 1]
           ELSE /\ recs' = [recs EXCEPT ![i].status = TaskStatusCompleted,
                                        ![i].completed = TRUE]
                /\ stats' = [stats EXCEPT !.RunningTasks = @ - 1, !.CompletedTasks = @ + 1]
    /\ proc' = [proc EXCEPT ![w] = IdleProc]
    /\ worker' = [worker EXCEPT ![w].pc = "wait", ![w].rec = 0, ![w].late = FALSE]
    /\ UNCHANGED <<tmRunning, tmGen, qClosed, queue, lastErr, crashed>>
    /\ UNCHANGED <<agents, agent, metrics, agentMetrics, share, calls>>
    /\ UNCHANGED unitVars
    /\ UNCHANGED <<maxQueueSize, enqueued, dequeued>>

\* variant: a failed execution is not recorded, the task stays Running
WorkerCompleteDropsFailure(w) ==
    /\ ~crashed
    /\ worker[w].pc = "call"
    /\ proc[w].pc = "done"
    /\ LET i == worker[w].rec
           r == proc[w].res
       IN  IF r.err # "" \/ ~r.success
           THEN UNCHANGED <<recs, stats>>
           ELSE /\ recs' = [recs EXCEPT ![i].status = TaskStatusCompleted,
                                        ![i].completed = TRUE]
                /\ stats' = [stats EXCEPT !.RunningTasks = @ - 1, !.CompletedTasks = @ + 1]
    /\ proc' = [proc EXCEPT ![w] = IdleProc]
    /\ worker' = [worker EXCEPT ![w].pc = "wait", ![w].rec = 0, ![w].late = FALSE]
    /\ UNCHANGED <<tmRunning, tmGen, qClosed, queue, lastErr, crashed>>
    /\ UNCHANGED <<agents, agent, metrics, agentMetrics, share, calls>>
    /\ UNCHANGED unitVars
    /\ UNCHANGED <<maxQueueSize, enqueued, dequeued>>

\* executeTask, second critical section: the outcome is recorded
WorkerComplete(w) ==
    /\ ~crashed
    /\ worker[w].pc = "call"
    /\ proc[w].pc = "done"
    /\ LET i == worker[w].rec
           r == proc[w].res
       IN  IF r.err # "" \/ ~r.success
           THEN /\ recs' = [recs EXCEPT ![i].status = TaskStatusFailed,
                                        ![i].completed = TRUE,
                                        ![i].error = IF r.err # "" THEN r.err ELSE r.resErr]
                /\ stats' = [stats EXCEPT !.RunningTasks = @ - 1, !.FailedTasks = @ + 1]
           ELSE /\ recs' = [recs EXCEPT ![i].status = TaskStatusCompleted,
                                        ![i].completed = TRUE]
                /\ stats' = [stats EXCEPT !.RunningTasks = @ - 1, !.CompletedTasks = @ + 1]
    /\ proc' = [proc EXCEPT ![w] = IdleProc]
    /\ worker' = [worker EXCEPT ![w].pc = "wait", ![w].rec = 0, ![w].late = FALSE]
    /\ UNCHANGED <<tmRunning, tmGen, qClosed, queue, lastErr, crashed>>
    /\ UNCHANGED <<agents, agent, metrics, agentMetrics, share, calls>>
    /\ UNCHANGED unitVars
    /\ UNCHANGED <<maxQueueSize, enqueued, dequeued>>

\* taskManager.ListTasks. A nil filter field is "" (status, type) or 0 (the
\* bounds of the creation range); a task's creation time is its position in
\* the order of submission. `all` is the filtered list before pagination, in
\* the order the map iteration happened to produce; results name the copied
\* tasks by their position in recs. UserID and BotID filters are nil.
ListTasks(f, all) ==
    /\ ~crashed
    /\ LET stored == {i \in 1..Len(recs) : TaskTable(recs[i].id) = i}
           match == {i \in stored :
                        /\ f.status = "" \/ recs[i].status = f.status
                        /\ f.type = "" \/ recs[i].type = f.type
                        /\ f.from = 0 \/ ~(i < f.from)
                        /\ f.to = 0 \/ ~(i > f.to)}
           r1 == IF f.Offset > 0 /\ f.Offset < Len(all)
                 THEN SubSeq(all, f.Offset + 1, Len(all)) ELSE all
           r2 == IF f.Limit > 0 /\ f.Limit < Len(r1) THEN SubSeq(r1, 1, f.Limit) ELSE r1
       IN  /\ Len(all) = Cardinality(match)
           /\ {all[k] : k \in 1..Len(all)} = match
           /\ listing' = [called |-> TRUE, f |-> f, all |-> all, result |-> r2]
    /\ UNCHANGED <<orchVars, tmVars, lastErr, crashed, wf, fac, mockRun, httpRun, health, adp>>

WorkerStep(w) ==
    \/ WorkerStop(w)
    \/ WorkerDequeue(w)
    \/ WorkerMarkRunning(w)
    \/ SelectAndExecute(w)
    \/ ExecuteTaskDomainFinish(w)
    \/ WorkerComplete(w)

----------------------------------------------------------------------------
(* A client of the factory: ValidateConfig, then CreateAgent on the same config *)

FacValidate(c) ==
    /\ fac.pc = "idle"
    /\ fac' = [NoFac EXCEPT !.pc = "validated", !.cfg = c, !.verr = ValidateConfig(c)]
    /\ UNCHANGED <<orchVars, tmVars, lastErr, crashed, wf, mockRun, httpRun, health, listing, adp>>

FacCreate ==
    /\ fac.pc = "validated"
    /\ fac' = [fac EXCEPT !.pc = "created",
                          !.cerr = CreateAgent(fac.cfg).err,
                          !.agent = CreateAgent(fac.cfg).obj]
    /\ UNCHANGED <<orchVars, tmVars, lastErr, crashed, wf, mockRun, httpRun, health, listing, adp>>

FacReturn ==
    /\ fac.pc = "created"
    /\ fac' = NoFac
    /\ UNCHANGED <<orchVars, tmVars, lastErr, crashed, wf, mockRun, httpRun, health, listing, adp>>

NextFac ==
    \/ \E c \in FactoryConfigs : FacValidate(c)
    \/ FacCreate
    \/ FacReturn

SpecFac == Init /\ [][NextFac]_vars

----------------------------------------------------------------------------
(* mockAgent.Execute *)

FloatOr(x, default) == IF x.kind = "float" THEN x.val ELSE default

\* the argument getProcessingTime passes to rand.Intn
ProcessingSpan(cfg) ==
    FloatOr(cfg.max_processing_time_ms, DefaultMaxMs)
        - FloatOr(cfg.min_processing_time_ms, DefaultMinMs)

\* shouldSimulateFailure for the random value r / RandDenom
shouldSimulateFailure(cfg, r) == r < FloatOr(cfg.failure_rate, DefaultFailureRate)

MockExecute(cfg) ==
    /\ mockRun.pc = "idle"
    /\ mockRun' = [NoMockRun EXCEPT !.pc = "busy", !.cfg = cfg]
    /\ UNCHANGED <<orchVars, tmVars, lastErr, crashed, wf, fac, httpRun, health, listing, adp>>

\* rand.Intn panics on an argument that is not positive
MockGetProcessingTime ==
    /\ mockRun.pc = "busy"
    /\ mockRun' = [mockRun EXCEPT
                     !.pc = IF ProcessingSpan(mockRun.cfg) <= 0 THEN "panicked" ELSE "slept"]
    /\ UNCHANGED <<orchVars, tmVars, lastErr, crashed, wf, fac, httpRun, health, listing, adp>>

MockDecide(r) ==
    /\ mockRun.pc = "slept"
    /\ mockRun' = [mockRun EXCEPT
                     !.pc = "returned", !.rnd = r,
                     !.success = ~shouldSimulateFailure(mockRun.cfg, r),
                     !.err = IF shouldSimulateFailure(mockRun.cfg, r)
                             THEN "simulated failure" ELSE ""]
    /\ UNCHANGED <<orchVars, tmVars, lastErr, crashed, wf, fac, httpRun, health, listing, adp>>

MockDone ==
    /\ mockRun.pc \in {"returned", "panicked"}
    /\ mockRun' = NoMockRun
    /\ UNCHANGED <<orchVars, tmVars, lastErr, crashed, wf, fac, httpRun, health, listing, adp>>

NextMock ==
    \/ \E cfg \in MockConfigs : MockExecute(cfg)
    \/ MockGetProcessingTime
    \/ \E r \in RandFloats : MockDecide(r)
    \/ MockDone

SpecMock == Init /\ [][NextMock]_vars

----------------------------------------------------------------------------
(* Orchestrator.ExecuteTask of an http_request on the registered HTTP agent *)

\* the Result and error of the three early returns of httpAgent.Execute
HttpFailure(e) ==
    [success |-> FALSE, has_status_code |-> FALSE, status_code |-> 0, err |-> e]

\* url[len(url)-1] on an empty base URL indexes out of range
buildPanics(baseURL, endpoint) ==
    endpoint # "" /\ Head(endpoint) # "/" /\ baseURL = ""

\* the URL has no scheme and host: client.Do can only fail
Unroutable(baseURL) == baseURL = ""

\* ExecuteTask selects the idle HTTP agent and calls its Execute
HttpExecuteTask(b, e, m) ==
    /\ httpRun.pc = "idle"
    /\ httpRun' = [NoHttpRun EXCEPT !.pc = "building", !.baseURL = b, !.endpoint = e,
                                    !.method = m]
    /\ UNCHANGED <<orchVars, tmVars, lastErr, crashed, wf, fac, mockRun, health, listing, adp>>

HttpBuild ==
    /\ httpRun.pc = "building"
    /\ httpRun' =
         IF buildPanics(httpRun.baseURL, httpRun.endpoint)
         THEN [httpRun EXCEPT !.pc = "panicked"]
         ELSE IF httpRun.method # "GET"
              THEN [httpRun EXCEPT !.pc = "returned", !.ret = HttpFailure("build")]
              ELSE [httpRun EXCEPT !.pc = "sending"]
    /\ UNCHANGED <<orchVars, tmVars, lastErr, crashed, wf, fac, mockRun, health, listing, adp>>

\* client.Do fails (no route, refused, timeout, cancelled context)
HttpDoFails ==
    /\ httpRun.pc = "sending"
    /\ httpRun' = [httpRun EXCEPT !.pc = "returned", !.ret = HttpFailure("transport")]
    /\ UNCHANGED <<orchVars, tmVars, lastErr, crashed, wf, fac, mockRun, health, listing, adp>>

\* client.Do returns a response with status code c
HttpDoResponds(c) ==
    /\ httpRun.pc = "sending"
    /\ ~Unroutable(httpRun.baseURL)
    /\ httpRun' = [httpRun EXCEPT !.pc = "reading", !.StatusCode = c]
    /\ UNCHANGED <<orchVars, tmVars, lastErr, crashed, wf, fac, mockRun, health, listing, adp>>

\* variant: every status below 300 counts as a success
HttpReadSuccessBelow300(ok) ==
    /\ httpRun.pc = "reading"
    /\ httpRun' =
         IF ~ok
         THEN [httpRun EXCEPT !.pc = "returned", !.ret = HttpFailure("read")]
         ELSE [httpRun EXCEPT !.pc = "returned",
                 !.ret = [success |-> httpRun.StatusCode < 300,
                          has_status_code |-> TRUE,
                          status_code |-> httpRun.StatusCode,
                          err |-> ""]]
    /\ UNCHANGED <<orchVars, tmVars, lastErr, crashed, wf, fac, mockRun, health, listing, adp>>

\* io.ReadAll of the body, then the Result; ExecuteTask returns it unchanged
HttpRead(ok) ==
    /\ httpRun.pc = "reading"
    /\ httpRun' =
         IF ~ok
         THEN [httpRun EXCEPT !.pc = "returned", !.ret = HttpFailure("read")]
         ELSE [httpRun EXCEPT !.pc = "returned",
                 !.ret = [success |-> (httpRun.StatusCode >= 200 /\ httpRun.StatusCode < 300),
                          has_status_code |-> TRUE,
                          status_code |-> httpRun.StatusCode,
                          err |-> ""]]
    /\ UNCHANGED <<orchVars, tmVars, lastErr, crashed, wf, fac, mockRun, health, listing, adp>>

HttpDone ==
    /\ httpRun.pc \in {"returned", "panicked"}
    /\ httpRun' = NoHttpRun
    /\ UNCHANGED <<orchVars, tmVars, lastErr, crashed, wf, fac, mockRun, health, listing, adp>>

NextHttp ==
    \/ \E b \in BaseURLs, e \in Endpoints, m \in Methods : HttpExecuteTask(b, e, m)
    \/ HttpBuild
    \/ HttpDoFails
    \/ \E c \in StatusCodes : HttpDoResponds(c)
    \/ \E ok \in BOOLEAN : HttpRead(ok)
    \/ HttpDone

SpecHttp == Init /\ [][NextHttp]_vars

----------------------------------------------------------------------------
(* adapterAgent.executeHTTPTask, called concurrently by the adapter agents   *)
(* of one factory (they share its adapter registry), one call per goroutine e *)

\* registry.GetByType("http"): with an http adapter registered the request is
\* made with it, otherwise one is created, initialized and started
executeHTTPTask(e, type) ==
    /\ adp.run[e].pc \in {"idle", "done"}
    /\ adp' = [adp EXCEPT !.run[e] = [pc |-> IF adp.adapters = {} THEN "provision"
                                             ELSE "request",
                                      type |-> type, success |-> FALSE, err |-> ""]]
    /\ UNCHANGED <<orchVars, tmVars, lastErr, crashed, wf, fac, mockRun, httpRun, health, listing>>

\* registry.Register("dynamic-http-adapter", adapter): an error when the
\* name is taken
Register(e) ==
    /\ adp.run[e].pc = "provision"
    /\ adp' = IF "dynamic-http-adapter" \in adp.adapters
              THEN [adp EXCEPT !.run[e].pc = "done", !.run[e].success = FALSE,
                               !.run[e].err = "failed to register HTTP adapter"]
              ELSE [adp EXCEPT !.adapters = @ \cup {"dynamic-http-adapter"},
                               !.run[e].pc = "request"]
    /\ UNCHANGED <<orchVars, tmVars, lastErr, crashed, wf, fac, mockRun, httpRun, health, listing>>

\* httpAdapter.MakeRequest and the Result built from its response
MakeRequest(e, ok) ==
    /\ adp.run[e].pc = "request"
    /\ adp' = [adp EXCEPT !.run[e].pc = "done", !.run[e].success = ok,
                          !.run[e].err = IF ok THEN "" ELSE "HTTP request failed"]
    /\ UNCHANGED <<orchVars, tmVars, lastErr, crashed, wf, fac, mockRun, httpRun, health, listing>>

NextAdapter ==
    \/ \E e \in Callers, type \in {"http_request", "api_call"} : executeHTTPTask(e, type)
    \/ \E e \in Callers : Register(e)
    \/ \E e \in Callers, ok \in BOOLEAN : MakeRequest(e, ok)

SpecAdapter == Init /\ [][NextAdapter]_vars

----------------------------------------------------------------------------
(* workflowAgent.Execute *)

\* executeStep: TRUE is a nil error
executeStep(step) ==
    CASE step.type = "log" -> {TRUE}
      [] step.type = "transform" -> {FALSE}
      [] step.type = "delay" -> {TRUE, FALSE}

stepInfo(n, ok, action) == [step |-> n, success |-> ok, action |-> action]

\* Execute is entered by a workflow agent built from these steps
WfExecute(steps) ==
    /\ wf.pc = "idle"
    /\ wf' = [NoWf EXCEPT !.pc = "loop", !.steps = steps]
    /\ UNCHANGED <<orchVars, tmVars, lastErr, crashed, fac, mockRun, httpRun, health, listing, adp>>

\* variant: the stopping step is left out of completed_steps
WfStepOmitsFailed(ok) ==
    /\ wf.pc = "loop"
    /\ wf.i < Len(wf.steps)
    /\ LET n == wf.i + 1
           step == wf.steps[n]
       IN  /\ ok \in executeStep(step)
           /\ IF ok
              THEN wf' = [wf EXCEPT !.i = n, !.calls = Append(@, [step |-> n, ok |-> ok]),
                                    !.results = Append(@, stepInfo(n, TRUE, ""))]
              ELSE CASE step.on_error = "continue" ->
                          wf' = [wf EXCEPT !.i = n, !.calls = Append(@, [step |-> n, ok |-> ok]),
                                           !.results = Append(@, stepInfo(n, FALSE, "continued"))]
                     [] step.on_error = "retry" ->
                          wf' = [wf EXCEPT !.pc = "retry",
                                           !.calls = Append(@, [step |-> n, ok |-> ok])]
                     [] OTHER ->
                          wf' = [wf EXCEPT
                                   !.pc = "done", !.calls = Append(@, [step |-> n, ok |-> ok]),
                                   !.ret = [NoRet EXCEPT
                                              !.success = FALSE,
                                              !.err = "workflow stopped",
                                              !.failed_at_step = n,
                                              !.completed_steps = wf.results]]
    /\ UNCHANGED <<orchVars, tmVars, lastErr, crashed, fac, mockRun, httpRun, health, listing, adp>>

\* one iteration of the loop over a.steps, up to the retry
WfStep(ok) ==
    /\ wf.pc = "loop"
    /\ wf.i < Len(wf.steps)
    /\ LET n == wf.i + 1
           step == wf.steps[n]
       IN  /\ ok \in executeStep(step)
           /\ IF ok
              THEN wf' = [wf EXCEPT !.i = n, !.calls = Append(@, [step |-> n, ok |-> ok]),
                                    !.results = Append(@, stepInfo(n, TRUE, ""))]
              ELSE CASE step.on_error = "continue" ->
                          wf' = [wf EXCEPT !.i = n, !.calls = Append(@, [step |-> n, ok |-> ok]),
                                           !.results = Append(@, stepInfo(n, FALSE, "continued"))]
                     [] step.on_error = "retry" ->
                          wf' = [wf EXCEPT !.pc = "retry", !.calls = Append(@, [step |-> n, ok |-> ok])]
                     [] OTHER ->
                          wf' = [wf EXCEPT
                                   !.pc = "done", !.calls = Append(@, [step |-> n, ok |-> ok]),
                                   !.results = Append(@, stepInfo(n, FALSE, "stopped")),
                                   !.ret = [NoRet EXCEPT
                                              !.success = FALSE,
                                              !.err = "workflow stopped",
                                              !.failed_at_step = n,
                                              !.completed_steps =
                                                  Append(wf.results,
                                                         stepInfo(n, FALSE, "stopped"))]]
    /\ UNCHANGED <<orchVars, tmVars, lastErr, crashed, fac, mockRun, httpRun, health, listing, adp>>

\* variant: the step keeps the outcome of its first attempt
WfRetryKeepsFirst(ok) ==
    /\ wf.pc = "retry"
    /\ LET n == wf.i + 1
       IN  /\ ok \in executeStep(wf.steps[n])
           /\ wf' = [wf EXCEPT
                       !.pc = "loop", !.i = n, !.calls = Append(@, [step |-> n, ok |-> ok]),
                       !.results = Append(@, stepInfo(n, FALSE, IF ok THEN "retry_success"
                                                                    ELSE "retry_failed"))]
    /\ UNCHANGED <<orchVars, tmVars, lastErr, crashed, fac, mockRun, httpRun, health, listing, adp>>

\* the second executeStep of a step whose on_error is "retry"
WfRetry(ok) ==
    /\ wf.pc = "retry"
    /\ LET n == wf.i + 1
       IN  /\ ok \in executeStep(wf.steps[n])
           /\ wf' = [wf EXCEPT
                       !.pc = "loop", !.i = n, !.calls = Append(@, [step |-> n, ok |-> ok]),
                       !.results = Append(@, stepInfo(n, ok, IF ok THEN "retry_success"
                                                                 ELSE "retry_failed"))]
    /\ UNCHANGED <<orchVars, tmVars, lastErr, crashed, fac, mockRun, httpRun, health, listing, adp>>

\* the loop has ended: the successful Result
WfFinish ==
    /\ wf.pc = "loop"
    /\ wf.i = Len(wf.steps)
    /\ wf' = [wf EXCEPT !.pc = "done",
                        !.ret = [NoRet EXCEPT !.success = TRUE, !.steps_executed = wf.results]]
    /\ UNCHANGED <<orchVars, tmVars, lastErr, crashed, fac, mockRun, httpRun, health, listing, adp>>

WfReturn ==
    /\ wf.pc = "done"
    /\ wf' = NoWf
    /\ UNCHANGED <<orchVars, tmVars, lastErr, crashed, fac, mockRun, httpRun, health, listing, adp>>

NextWf ==
    \/ \E steps \in Workflows : WfExecute(steps)
    \/ \E ok \in BOOLEAN : WfStep(ok)
    \/ \E ok \in BOOLEAN : WfRetry(ok)
    \/ WfFinish
    \/ WfReturn

SpecWf == Init /\ [][NextWf]_vars

\* configurations that pass validation and construction
GoodConfigs == {c \in Configs : ValidateConfig(c) = "" /\ CreateAgent(c).err = ""}

Caller1 == CHOOSE p \in Callers : \A q \in Callers : p <= q

\* Dispatch: concurrent callers of ExecuteTask / ExecuteTaskDomain
NextOrch ==
    \/ \E c \in GoodConfigs : InstantiateMCP(c)
    \/ \E p \in Callers, t \in PlainTasks, dom \in BOOLEAN : BeginExecute(p, t, dom)
    \/ \E p \in Callers : Dispatch(p)
    \/ \E p \in Callers : ReturnToCaller(p)

SpecOrch == Init /\ [][NextOrch]_vars

\* Registry: InstantiateMCP and TerminateAgent with arbitrary arguments, one caller
NextReg ==
    \/ \E c \in Configs : InstantiateMCP(c)
    \/ \E id \in AgentIds : TerminateAgent(id)
    \/ \E t \in PlainTasks, dom \in BOOLEAN :
          calls < MaxRegCalls /\ BeginExecute(Caller1, t, dom)
    \/ Dispatch(Caller1)
    \/ ReturnToCaller(Caller1)

SpecReg == Init /\ [][NextReg]_vars

\* Coordination: CoordinateAgents on handles the caller has kept, next to
\* ExecuteTask, TerminateAgent and the orchestrator's Stop, on agents whose
\* Execute returns
NextCoord ==
    \/ \E c \in GoodConfigs : ~CreateAgent(c).obj.hazard /\ InstantiateMCP(c)
    \/ \E id \in AgentIds : TerminateAgent(id)
    \/ OrchestratorStop
    \/ \E n \in 0..MaxAgents : \E handles \in [1..n -> Created], t \in PlainTasks :
          CoordinateAgents(Caller1, handles, t)
    \/ \E p \in Callers \ {Caller1}, t \in PlainTasks : BeginExecute(p, t, FALSE)
    \/ \E p \in Callers : SelectAndExecute(p) \/ ExecuteTaskFinish(p)
    \/ \E p \in Callers : ReturnToCaller(p)

SpecCoord == Init /\ [][NextCoord]_vars

\* Contexts: PassContext and ShareContext on agents that come and go
NextCtx ==
    \/ \E c \in GoodConfigs : c.type = "mock" /\ c.isNil /\ InstantiateMCP(c)
    \/ \E id \in AgentIds : TerminateAgent(id)
    \/ \E id \in AgentIds, ctx \in CtxInputs : PassContext(id, ctx)
    \/ \E from \in AgentIds, to \in AgentIds, keys \in KeyLists : ShareLookupFrom(from, to, keys)
    \/ ShareLookupTo
    \/ ShareRead
    \/ ShareWrite
    \/ ShareReturn

SpecCtx == Init /\ [][NextCtx]_vars

\* Task-scoped contexts: tasks that carry a context dispatched to one agent
\* that also receives contexts through PassContext
NextTaskCtx ==
    \/ \E c \in GoodConfigs : agents = {} /\ c.type = "mock" /\ c.isNil /\ InstantiateMCP(c)
    \/ \E id \in AgentIds, ctx \in CtxInputs : PassContext(id, ctx)
    \/ \E t \in CtxTasks, dom \in BOOLEAN :
          calls < MaxRegCalls /\ BeginExecute(Caller1, t, dom)
    \/ PushTaskContext(Caller1)
    \/ Dispatch(Caller1)
    \/ ReturnToCaller(Caller1)

SpecTaskCtx == Init /\ [][NextTaskCtx]_vars

\* One agent driven through the orchestrator and, concurrently, through its
\* own Start, Stop, SetContext and IsHealthy
NextAgent ==
    \/ \E c \in GoodConfigs : c.type = "mock" /\ c.isNil /\ InstantiateMCP(c)
    \/ \E t \in PlainTasks, dom \in BOOLEAN :
          calls < MaxRegCalls /\ BeginExecute(Caller1, t, dom)
    \/ Dispatch(Caller1)
    \/ ReturnToCaller(Caller1)
    \/ \E id \in AgentIds, ctx \in CtxInputs : PassContext(id, ctx)
    \/ \E a \in AgentIds : ClientStart(a)
    \/ \E a \in AgentIds : ClientStop(a)
    \/ \E a \in AgentIds : GetAgentHealthy(a)

SpecAgent == Init /\ [][NextAgent]_vars

\* a single agent, without the context operations and with UpdateState
NextAgentState ==
    \/ \E c \in GoodConfigs : agents = {} /\ c.type = "mock" /\ c.isNil /\ InstantiateMCP(c)
    \/ \E t \in PlainTasks, dom \in BOOLEAN :
          calls < MaxRegCalls /\ BeginExecute(Caller1, t, dom)
    \/ Dispatch(Caller1)
    \/ ReturnToCaller(Caller1)
    \/ \E a \in AgentIds : ClientStart(a)
    \/ \E a \in AgentIds : ClientStop(a)
    \/ \E a \in AgentIds, st \in AgentStatuses, cur \in {"", "a"} : UpdateState(a, st, cur)
    \/ \E a \in AgentIds : GetAgentHealthy(a)

SpecAgentState == Init /\ [][NextAgentState]_vars

\* Task manager: submissions, cancellations and the worker pool
NextTM ==
    \/ \E c \in GoodConfigs : c.type = "mock" /\ c.isNil /\ InstantiateMCP(c)
    \/ Start
    \/ Stop
    \/ \E id \in {"a", ""} : SubmitTask(id, "other", DefaultPriority)
    \/ \E id \in KnownIds : CancelTask(id)
    \/ \E w \in WorkerIds : WorkerStep(w)

SpecTM == Init /\ [][NextTM]_vars

\* Listing: one ListTasks call with any filter and page, on a table filled
\* by SubmitTask and changed by CancelTask before and after it
NextList ==
    \/ Start
    \/ \E id \in {"a", ""}, type \in TaskTypes : SubmitTask(id, type, DefaultPriority)
    \/ \E id \in KnownIds : CancelTask(id)
    \/ /\ ~listing.called
       /\ \E f \in [status : {"", TaskStatusPending, TaskStatusFailed, TaskStatusCancelled},
                      type : {""} \cup TaskTypes, from : {0, MaxTasks}, to : {0, 1},
                      Offset : 0..MaxTasks, Limit : 0..MaxTasks] :
            \E n \in 0..MaxTasks : \E all \in [1..n -> 1..MaxTasks] : ListTasks(f, all)

SpecList == Init /\ [][NextList]_vars

\* One worker pool consuming http_request tasks, with one agent of any
\* constructible kind registered at some point; the manager is stopped at
\* most once, and after that it is not started again and nothing is submitted
NextWork ==
    \/ \E c \in GoodConfigs : agents = {} /\ InstantiateMCP(c)
    \/ ~qClosed /\ Start
    \/ ~qClosed /\ Stop
    \/ ~qClosed /\ SubmitTask("", "http_request", DefaultPriority)
    \/ \E w \in WorkerIds : WorkerStep(w)

SpecWork == Init /\ [][NextWork]_vars

\* the same with the scheduler's fairness: a worker goroutine that can take a
\* step eventually takes one
SpecWorkFair == SpecWork /\ \A w \in WorkerIds : WF_vars(WorkerStep(w))

\* Task manager with a queue of two, fed tasks of differing priorities
NextFifo ==
    \/ \E c \in GoodConfigs : agents = {} /\ c.type = "mock" /\ c.isNil /\ InstantiateMCP(c)
    \/ Start
    \/ Stop
    \/ \E pr \in Priorities : SubmitTask("", "other", pr)
    \/ \E w \in WorkerIds : WorkerStep(w)

SpecFifo == InitFifo /\ [][NextFifo]_vars

Next ==
    \/ NextOrch \/ NextReg \/ NextCtx \/ NextTM \/ PushTaskContext(Caller1)
    \/ NextFifo \/ NextWf \/ NextFac \/ NextMock \/ NextHttp \/ NextAgentState
    \/ NextCoord \/ NextList \/ NextAdapter

Spec == Init /\ [][Next]_vars

----------------------------------------------------------------------------
(* Properties *)

\* goroutines whose Agent.Execute call on agent a has begun and not returned
Executing(a) == {p \in Procs : proc[p].pc \in {"run", "defer"} /\ proc[p].sel = a}

\* C1: per-agent mutual exclusion: at most one Agent.Execute call is in flight
\* on any agent at any time, under concurrent ExecuteTask / ExecuteTaskDomain.
C1_MutualExclusion == \A a \in AgentIds : Cardinality(Executing(a)) <= 1

TerminalStatuses == {TaskStatusCompleted, TaskStatusFailed, TaskStatusCancelled}

\* C2: once a task record is Completed, Failed or Cancelled, no later step
\* changes its status.
C2_TerminalFinality ==
    [][\A i \in 1..Len(recs) :
          recs[i].status \in TerminalStatuses => recs'[i].status = recs[i].status]_vars

\* C3: on a started manager with maxQueueSize tasks sitting in the queue,
\* SubmitTask returns "task queue is full" and stores the task as Failed with
\* that error; the queue never holds more than maxQueueSize tasks.
C3_Backpressure ==
    [][/\ Len(queue') <= maxQueueSize
       /\ \A id \in TaskIdSet \cup {""}, type \in TaskTypes :
            (tmRunning /\ Len(queue) = maxQueueSize /\ SubmitTask(id, type, DefaultPriority))
                => /\ lastErr' = "task queue is full"
                   /\ Len(recs') = Len(recs) + 1
                   /\ recs'[Len(recs')].status = TaskStatusFailed
                   /\ recs'[Len(recs')].error = "task queue is full"]_vars

\* C4: CancelTask on a Completed or Failed task returns an error and leaves
\* the task records and the statistics unchanged.
C4_CancelFinishedRejected ==
    [][\A id \in KnownIds :
          (/\ TaskTable(id) # 0
           /\ recs[TaskTable(id)].status \in {TaskStatusCompleted, TaskStatusFailed}
           /\ CancelTask(id))
              => /\ lastErr' = "cannot cancel completed task"
                 /\ recs' = recs
                 /\ stats' = stats]_vars

\* a CancelTask was refused on a task that a worker had completed
C4_Witness ==
    /\ lastErr = "cannot cancel completed task"
    /\ \E i \in 1..Len(recs) : recs[i].status = TaskStatusCompleted /\ recs[i].started

\* C5: CancelTask on a task in any terminal status, Cancelled included,
\* returns an error and changes neither the record nor CancelledTasks; on a
\* Pending or Running task it sets Cancelled, the error text and the
\* completion timestamp.
C5_CancelOnlyFromPendingRunning ==
    [][\A id \in KnownIds :
          (TaskTable(id) # 0 /\ CancelTask(id))
              => LET i == TaskTable(id)
                 IN  IF recs[i].status \in TerminalStatuses
                     THEN /\ lastErr' # ""
                          /\ recs' = recs
                          /\ stats'.CancelledTasks = stats.CancelledTasks
                     ELSE /\ lastErr' = ""
                          /\ recs'[i].status = TaskStatusCancelled
                          /\ recs'[i].error = "task cancelled by user"
                          /\ recs'[i].completed]_vars

\* C6: an ExecuteTask call that selected an agent (one that was capable,
\* healthy and Idle when selected) returns a Result with the task's ID and the
\* success value of that agent's Execute.
C6_DispatchReturnsResult ==
    \A p \in Callers :
        (proc[p].pc = "done" /\ ~proc[p].domain /\ proc[p].sel # 0)
            => /\ proc[p].res.kind = "result"
               /\ proc[p].res.taskId = proc[p].task.id
               /\ proc[p].res.success = (proc[p].out = "ok")
               /\ CanHandle(agent[proc[p].sel], proc[p].task.type)

\* no registered agent is capable, healthy and Idle for the task type
NoneSuitable(taskType) ==
    \A a \in agents :
        ~(CanHandle(agent[a], taskType) /\ IsHealthy(agent[a])
            /\ agent[a].status = AgentStatusIdle)

\* C7: while no registered agent is capable, healthy and Idle, a step of
\* ExecuteTask / ExecuteTaskDomain selects nothing and calls no Execute; the
\* call ends with a non-nil error and Result{success: false, taskId: T.id}.
C7_NoSuitableAgentFails ==
    [][\A p \in Procs :
          (proc[p].pc = "scan" /\ NoneSuitable(proc[p].task.type) /\ proc'[p] # proc[p])
              => /\ proc'[p].pc \in {"scan", "done"}
                 /\ proc'[p].sel = 0
                 /\ agent' = agent
                 /\ proc'[p].pc = "done"
                      => /\ proc'[p].res.kind = "result"
                         /\ proc'[p].res.success = FALSE
                         /\ proc'[p].res.taskId = proc[p].task.id
                         /\ proc'[p].res.err # ""
                         /\ proc[p].scanned = agents]_vars

\* a call failed although an agent was registered (it was busy or incapable)
C7_Witness ==
    \E p \in Callers :
        /\ proc[p].pc = "done"
        /\ proc[p].res.err = "no suitable agent found"
        /\ \E a \in agents : agent[a].status = AgentStatusBusy

\* C8: InstantiateMCP either fails and leaves the registry, the agents and
\* the counters unchanged, or registers the new agent, Idle, under its ID;
\* CreateAgent is reached only with a configuration that passes ValidateConfig.
C8_InstantiateAllOrNothing ==
    [][\A c \in Configs :
          InstantiateMCP(c)
              => /\ lastErr' # "invalid MCP config" => ValidateConfig(c) = ""
                 /\ lastErr' # ""
                      => agents' = agents /\ agent' = agent /\ metrics' = metrics
                 /\ lastErr' = ""
                      => \E id \in AgentIds \ Created :
                            /\ agents' = agents \cup {id}
                            /\ agent'[id].status = AgentStatusIdle
                            /\ agent'[id].kind = c.type
                            /\ \A a \in AgentIds \ {id} : agent'[a] = agent[a]
                            /\ metrics'.TotalAgents = metrics.TotalAgents + 1]_vars

\* a construction failed after validation passed, with an agent registered
C8_Witness ==
    /\ lastErr = "failed to create agent"
    /\ agents # {}
    /\ metrics.TotalAgents = Cardinality(Created)

\* C9: TerminateAgent on an unknown ID fails and changes nothing; on a
\* registered ID it stops the agent and removes it; a terminated agent stays
\* out of the registry and no ExecuteTask selects it.
C9_TerminateRemoves ==
    [][/\ \A id \in AgentIds :
            TerminateAgent(id)
                => IF id \notin agents
                   THEN /\ lastErr' = "agent not found"
                        /\ agents' = agents /\ agent' = agent /\ metrics' = metrics
                   ELSE /\ lastErr' = ""
                        /\ agents' = agents \ {id}
                        /\ agent'[id].status = AgentStatusTerminated
       /\ \A a \in AgentIds :
            agent[a].status = AgentStatusTerminated
                => /\ a \notin agents'
                   /\ agent'[a].status = AgentStatusTerminated
                   /\ \A p \in Procs : proc'[p].pc \notin {"idle", "done"} => proc'[p].sel # a]_vars

\* an agent was terminated and a later call found no agent
C9_Witness ==
    /\ \E a \in AgentIds : agent[a].status = AgentStatusTerminated /\ a \notin agents
    /\ \E p \in Callers : proc[p].pc = "done" /\ proc[p].res.err = "no suitable agent found"

\* C10 as stated: after ShareContext(A, B, keys) B's context is the projection
\* of A's context and A's context is unchanged.
C10_ShareLeavesSource ==
    [][(share.pc = "write" /\ share'.pc = "done")
          => /\ agent'[share.to].ctx = sharedContext(share.snap, share.keys)
             /\ agent'[share.from].ctx = agent[share.from].ctx]_vars

\* C10 amended: B's context becomes exactly the projection of the context
\* read from A; every other agent, A included when A and B differ, is left
\* alone; a lookup fails exactly when the agent is not registered, and then no
\* context changes.
C10_ShareProjects ==
    [][/\ (share.pc = "write" /\ share'.pc = "done")
            => /\ agent'[share.to].ctx = [k \in Keys |-> IF k \in share.keys
                                                        THEN share.snap[k] ELSE Absent]
               /\ \A a \in AgentIds \ {share.to} : agent'[a] = agent[a]
       /\ (share.pc = "read" /\ share'.pc = "write")
            => share'.snap = agent[share.from].ctx /\ agent' = agent
       /\ (share.pc = "idle" /\ share'.pc # "idle")
            => agent' = agent /\ ((share'.err # "") <=> (share'.from \notin agents))
       /\ (share.pc = "lookup_to" /\ share'.pc # "lookup_to")
            => agent' = agent /\ ((share'.err # "") <=> (share.to \notin agents))]_vars

\* the shared key replaced a target context that held other keys
C10_Witness ==
    /\ share.pc = "done" /\ share.err = ""
    /\ share.from # share.to
    /\ share.keys = {"lang"}
    /\ agent[share.from].ctx = CtxA
    /\ agent[share.to].ctx = [lang |-> "es", tz |-> Absent]

\* executeStep calls that failed on a step whose on_error is "stop" or unset
StopCalls ==
    {j \in 1..Len(wf.calls) :
        ~wf.calls[j].ok /\ wf.steps[wf.calls[j].step].on_error \in {"", "stop"}}

\* C11: when step k fails and its on_error is "stop" or unset, Execute
\* returns success=false with failed_at_step = k and completed_steps holding
\* exactly the k entries of steps 1..k, the last one the failed step, and no
\* step after k is executed.
C11_WorkflowStopPolicy ==
    /\ StopCalls # {}
         => LET last == Len(wf.calls)
                k == wf.calls[last].step
            IN  /\ StopCalls = {last}
                /\ wf.pc = "done"
                /\ wf.ret.success = FALSE
                /\ wf.ret.failed_at_step = k
                /\ Len(wf.ret.completed_steps) = k
                /\ \A j \in 1..k : wf.ret.completed_steps[j].step = j
                /\ wf.ret.completed_steps[k].success = FALSE
                /\ \A j \in 1..last : wf.calls[j].step <= k
    /\ (wf.pc = "done" /\ StopCalls = {}) => wf.ret.success /\ wf.ret.failed_at_step = 0

\* step 2 of 3 failed under the stop policy
C11_Witness ==
    /\ wf.pc = "done"
    /\ Len(wf.steps) = 3
    /\ wf.steps[2].on_error = "stop"
    /\ wf.ret.failed_at_step = 2
    /\ Len(wf.ret.completed_steps) = 2

\* C12: for every supported type and every configuration that ValidateConfig
\* accepts, CreateAgent on the same configuration returns an agent and no error.
C12_ValidateCreateRoundTrip ==
    (fac.pc = "created" /\ fac.cfg.type \in GetSupportedTypes /\ fac.verr = "")
        => fac.cerr = "" /\ fac.agent # NoAgent

\* C13: CreateAgent returns an agent only for a type in GetSupportedTypes;
\* for any other type, the empty string included, CreateAgent and
\* ValidateConfig both return an error and no agent is constructed.
C13_FactoryDispatchClosed ==
    fac.pc = "created"
        => /\ fac.agent # NoAgent => fac.cfg.type \in GetSupportedTypes
           /\ (fac.agent # NoAgent) <=> (fac.cerr = "")
           /\ fac.cfg.type \notin {"ai", "http", "workflow", "adapter", "mock"}
                => fac.cerr # "" /\ fac.verr # "" /\ fac.agent = NoAgent

\* a named configuration of an unknown type was refused by both operations
C13_Witness ==
    /\ fac.pc = "created"
    /\ fac.cfg.type = "custom" /\ fac.cfg.name # ""
    /\ fac.cerr = "unsupported agent type"
    /\ fac.verr = "unsupported agent type"
    /\ fac.agent = NoAgent

\* C14: a mock agent with failure_rate 1.0 returns success=false from every
\* Execute, and one with failure_rate 0.0 returns success=true from every
\* Execute, whatever value the random source produces.
C14_BoundaryFailureRates ==
    (mockRun.pc \in {"returned", "panicked"} /\ mockRun.cfg.failure_rate.kind = "float")
        => /\ mockRun.cfg.failure_rate.val = RandDenom
                => mockRun.pc = "returned" /\ ~mockRun.success
           /\ mockRun.cfg.failure_rate.val = 0
                => mockRun.pc = "returned" /\ mockRun.success

C17_CurrentTaskIffBusy ==
    \A a \in agents : (agent[a].cur # "") <=> (agent[a].status = AgentStatusBusy)

C19_TaskLifecycle ==
    [][/\ Len(recs') > Len(recs)
            => \/ recs'[Len(recs')].status = TaskStatusPending
               \/ /\ recs'[Len(recs')].status = TaskStatusFailed
                  /\ recs'[Len(recs')].error = "task queue is full"
       /\ \A i \in 1..Len(recs) :
            /\ (recs'[i].status = TaskStatusRunning /\ recs[i].status # TaskStatusRunning)
                  => /\ recs[i].status = TaskStatusPending
                     /\ \E w \in WorkerIds :
                           worker[w].pc = "dequeued" /\ worker[w].rec = i /\ WorkerMarkRunning(w)
            /\ (recs'[i].status \in {TaskStatusCompleted, TaskStatusFailed}
                  /\ recs[i].status # recs'[i].status)
                  => recs[i].status = TaskStatusRunning
            /\ recs[i].status \in TerminalStatuses
                  => recs'[i].status = recs[i].status]_vars

\* C20: a task that was Cancelled while it sat in the queue is never marked
\* Running nor passed to ExecuteTaskDomain by the worker that receives it.
C20_CancelledNeverExecuted ==
    \A w \in WorkerIds : worker[w].late => worker[w].pc \notin {"call"}

\* C21: when ExecuteTaskDomain has returned (result, err) to a worker, the
\* worker sets the task Completed iff err is nil and result.Success is true,
\* and Failed otherwise with task.Error the error text (err if non-nil, else
\* result.Error); RunningTasks goes down by one and exactly one of
\* CompletedTasks / FailedTasks goes up by one.
C21_WorkerCompletion ==
    [][\A w \in WorkerIds :
          WorkerComplete(w)
              => LET i == worker[w].rec
                     r == proc[w].res
                     ok == r.err = "" /\ r.success
                 IN  /\ recs'[i].status = IF ok THEN TaskStatusCompleted ELSE TaskStatusFailed
                     /\ ~ok => recs'[i].error = IF r.err # "" THEN r.err ELSE r.resErr
                     /\ stats'.RunningTasks = stats.RunningTasks - 1
                     /\ stats'.CompletedTasks = stats.CompletedTasks + (IF ok THEN 1 ELSE 0)
                     /\ stats'.FailedTasks = stats.FailedTasks + (IF ok THEN 0 ELSE 1)]_vars

\* a task whose result had Success false and no error was recorded as Failed
\* with the text of result.Error
C21_Witness ==
    \E i \in 1..Len(recs) :
        /\ recs[i].status = TaskStatusFailed
        /\ recs[i].started
        /\ recs[i].error = ResultError("fail_noerr")
        /\ stats.FailedTasks >= 1

\* C22: whatever the selected agent does with a task a worker received, no
\* Execute panics and the worker's goroutine, and with it the process, survives.
C22_NoExecutePanic ==
    /\ ~crashed
    /\ \A p \in Procs : proc[p].res.kind # "panic"

\* C23: no sequence of Start, Stop and SubmitTask calls panics; every call
\* succeeds or returns an error value and the process keeps running.
C23_LifecycleNeverPanics ==
    /\ lastErr # "panic: close of closed channel"
    /\ lastErr # "panic: send on closed channel"

\* C24: with distinct task IDs, each of PendingTasks, RunningTasks,
\* CompletedTasks, FailedTasks and CancelledTasks equals the number of task
\* records in that status, none is negative, and they add up to TotalTasks.
C24_StatsMatchTable ==
    LET Count(st) == Cardinality({i \in 1..Len(recs) : recs[i].status = st})
    IN  (\A i, j \in 1..Len(recs) : recs[i].id = recs[j].id => i = j)
            => /\ stats.PendingTasks = Count(TaskStatusPending)
               /\ stats.RunningTasks = Count(TaskStatusRunning)
               /\ stats.CompletedTasks = Count(TaskStatusCompleted)
               /\ stats.FailedTasks = Count(TaskStatusFailed)
               /\ stats.CancelledTasks = Count(TaskStatusCancelled)
               /\ stats.PendingTasks >= 0 /\ stats.RunningTasks >= 0
               /\ stats.TotalTasks = stats.PendingTasks + stats.RunningTasks
                                       + stats.CompletedTasks + stats.FailedTasks
                                       + stats.CancelledTasks

\* C25: once all concurrent ExecuteTask / ExecuteTaskDomain calls have
\* returned, no counter has lost an update: TotalTasks equals the number of
\* executions dispatched (counted over ExecuteTask, the operation that
\* maintains it) and equals CompletedTasks + FailedTasks, and every agent's
\* orchestrator-held TasksExecuted equals TasksSuccessful + TasksFailed and
\* the number of executions dispatched to that agent (counted over
\* ExecuteTaskDomain, the operation that maintains it).
C25_CountersNotLost ==
    (\A p \in Callers : proc[p].pc = "done" /\ proc[p].res.kind = "result")
        => LET Dispatched(dom) ==
                   {p \in Callers : proc[p].res.agent # 0 /\ proc[p].domain = dom}
           IN  /\ metrics.TotalTasks = Cardinality(Dispatched(FALSE))
               /\ metrics.TotalTasks = metrics.CompletedTasks + metrics.FailedTasks
               /\ \A a \in AgentIds :
                     /\ agentMetrics[a].TasksExecuted
                           = agentMetrics[a].TasksSuccessful + agentMetrics[a].TasksFailed
                     /\ agentMetrics[a].TasksExecuted
                           = Cardinality({p \in Dispatched(TRUE) : proc[p].res.agent = a})

\* C26: while a call is inside Agent.Execute, a concurrent InstantiateMCP or
\* TerminateAgent can run to completion without waiting for that Execute to
\* return.
C26_WritersNotBlocked ==
    (~crashed /\ \E p \in Procs : proc[p].pc = "run")
        => /\ \A c \in Configs : ValidateConfig(c) # "" => ENABLED InstantiateMCP(c)
           /\ \A id \in AgentIds : ENABLED TerminateAgent(id)

\* C27: every Execute call updates the agent's own metrics exactly once:
\* tasksCompleted + tasksFailed grows by one, tasksCompleted being the one
\* incremented iff the Result has success true; and when the call is over the
\* agent is Idle with currentTask cleared.
C27_AgentMetricsOncePerCall ==
    [][\A p \in Procs :
          /\ \A o \in {"ok", "fail_err", "fail_noerr", "panic"} :
                ExecuteRun(p, o)
                    => LET a == proc[p].sel
                       IN  /\ agent'[a].done + agent'[a].failed
                                = agent[a].done + agent[a].failed + 1
                           /\ agent'[a].done = agent[a].done + 1 <=> o = "ok"
          /\ ExecuteDefer(p)
                => /\ agent'[proc[p].sel].status = AgentStatusIdle
                   /\ agent'[proc[p].sel].cur = ""]_vars

\* C28: when ExecuteTaskDomain hands a task's context to the selected agent,
\* the agent's context then holds every key of the task context with the
\* task's value and still holds every other key it held before.
C28_TaskContextMerged ==
    [][\A p \in Procs :
          PushTaskContext(p)
              => \A k \in Keys :
                    agent'[proc[p].sel].ctx[k]
                        = IF proc[p].task.ctx[k] # Absent
                          THEN proc[p].task.ctx[k]
                          ELSE agent[proc[p].sel].ctx[k]]_vars

\* C29: after every dispatched execution, through ExecuteTask as well as
\* through ExecuteTaskDomain, the system counters have advanced by one (total
\* and exactly one of completed / failed) and the selected agent's per-agent
\* record has TasksExecuted advanced by one.
C29_BothMetricSetsUpdated ==
    [][\A p \in Procs :
          (ExecuteTaskFinish(p) \/ ExecuteTaskDomainFinish(p))
              => /\ metrics'.TotalTasks = metrics.TotalTasks + 1
                 /\ metrics'.CompletedTasks + metrics'.FailedTasks
                        = metrics.CompletedTasks + metrics.FailedTasks + 1
                 /\ agentMetrics'[proc[p].sel].TasksExecuted
                        = agentMetrics[proc[p].sel].TasksExecuted + 1]_vars

\* C30: after every ExecuteTaskDomain dispatched to an agent, succeeded or
\* failed, the agent's SuccessRate equals TasksSuccessful / TasksExecuted of
\* the record as it then stands (stated for executions whose update of the
\* record is not interleaved with another one).
C30_SuccessRateCurrent ==
    [][\A p \in Procs :
          (ExecuteTaskDomainFinish(p) /\ proc[p].locAg = agentMetrics[proc[p].sel])
              => LET m == agentMetrics'[proc[p].sel]
                 IN  m.rateNum * m.TasksExecuted = m.TasksSuccessful * m.rateDen]_vars

\* C34: with workerCount = W, at most W ExecuteTaskDomain calls issued by
\* workers are in flight and at most W task records are Running, in every
\* reachable state, a Stop followed by another Start included.
C34_BoundedConcurrency ==
    /\ Cardinality({w \in WorkerIds : worker[w].pc = "call"}) <= WorkerCount
    /\ Cardinality({i \in 1..Len(recs) : recs[i].status = TaskStatusRunning}) <= WorkerCount

\* C40: SubmitTask on a manager that is not running (before Start or after
\* Stop) returns the not-started error and leaves the task table, the queue
\* and the statistics unchanged; Start on a started manager returns the
\* already-started error and creates no worker.
C40_NotRunningRefused ==
    [][/\ \A id \in {"a", ""} :
            (~tmRunning /\ SubmitTask(id, "other", DefaultPriority))
                => /\ lastErr' = "task manager not started"
                   /\ UNCHANGED <<recs, queue, stats>>
       /\ (tmRunning /\ Start)
            => /\ lastErr' = "task manager already started"
               /\ UNCHANGED worker]_vars

\* a submission refused after a Stop, with tasks in the table
C40_Witness ==
    /\ lastErr = "task manager not started"
    /\ qClosed
    /\ ~tmRunning
    /\ recs # << >>

\* C35: a step that fails with on_error "continue" is recorded as failed and
\* the next step runs; a step that fails with on_error "retry" is invoked
\* exactly once more, its recorded outcome is that of the second attempt and
\* the workflow goes on to the next step; no step is invoked more than twice
\* in one Execute.
C35_ContinueAndRetry ==
    [][\A ok \in BOOLEAN :
          LET n == wf.i + 1
              last == wf'.results[Len(wf'.results)]
          IN  /\ (WfStep(ok) /\ ~ok /\ wf.steps[n].on_error = "continue")
                    => /\ wf'.pc = "loop" /\ wf'.i = n
                       /\ Len(wf'.results) = Len(wf.results) + 1
                       /\ last.step = n /\ ~last.success
              /\ (WfStep(ok) /\ ~ok /\ wf.steps[n].on_error = "retry")
                    => /\ wf'.pc = "retry" /\ wf'.i = wf.i
                       /\ wf'.results = wf.results
              /\ WfRetry(ok)
                    => /\ wf'.pc = "loop" /\ wf'.i = n
                       /\ Len(wf'.results) = Len(wf.results) + 1
                       /\ last.step = n /\ last.success = ok
              /\ (WfStep(ok) \/ WfRetry(ok))
                    => \A k \in 1..MaxSteps :
                          Cardinality({j \in 1..Len(wf'.calls) : wf'.calls[j].step = k}) <= 2]_vars

\* a retried step that succeeded at its second attempt, after a step that
\* failed under "continue", with the workflow finished
C35_Witness ==
    /\ wf.pc = "done"
    /\ wf.ret.success
    /\ Len(wf.steps) = 2
    /\ wf.steps[1].on_error = "continue"
    /\ wf.steps[2].on_error = "retry"
    /\ wf.calls = << [step |-> 1, ok |-> FALSE], [step |-> 2, ok |-> FALSE],
                     [step |-> 2, ok |-> TRUE] >>
    /\ Len(wf.results) = 2
    /\ ~wf.results[1].success
    /\ wf.results[2].success

\* C36: when step k fails under the stop policy, completed_steps lists only
\* steps 1..k-1, the failed step left out, and failed_at_step is k.
C36_CompletedStepsBeforeFailure ==
    (wf.pc = "done" /\ StopCalls # {})
        => LET k == wf.calls[Len(wf.calls)].step
           IN  /\ wf.ret.failed_at_step = k
               /\ Len(wf.ret.completed_steps) = k - 1
               /\ \A j \in 1..Len(wf.ret.completed_steps) :
                     wf.ret.completed_steps[j].step = j /\ j < k

\* C33: on a started manager, every task accepted into the queue is
\* eventually dequeued, marked Running and brought to Completed or Failed,
\* unless the manager is stopped or an Execute call does not return (it
\* panics); with no suitable agent the task ends Failed.
C33_WorkerPoolLiveness ==
    \A i \in 1..MaxTasks :
        (\E j \in 1..Len(enqueued) : enqueued[j] = i)
            ~> \/ qClosed
               \/ crashed
               \/ /\ \E j \in 1..Len(dequeued) : dequeued[j] = i
                  /\ recs[i].started
                  /\ recs[i].status \in {TaskStatusCompleted, TaskStatusFailed}

\* a queued task that went through a worker and ended Failed for want of an
\* agent, on a manager still running
C33_Witness ==
    /\ tmRunning /\ ~qClosed /\ ~crashed
    /\ agents = {}
    /\ dequeued = << 1 >>
    /\ recs[1].started
    /\ recs[1].status = TaskStatusFailed
    /\ recs[1].error = "no suitable agent found"

\* C31: once an agent's status is Terminated, no orchestrator operation
\* starts an Execute on it or moves its status away from Terminated, be it
\* CoordinateAgents on a retained handle or an Execute in flight during the stop.
C31_TerminatedStaysTerminated ==
    [][\A a \in AgentIds :
          agent[a].status = AgentStatusTerminated
              => /\ agent'[a].status = AgentStatusTerminated
                 /\ \A p \in Procs : ~(proc[p].sel = a /\ ExecuteStart(p))]_vars

C39_CoordinateAgents ==
    [][/\ \A n \in 0..MaxAgents : \A handles \in [1..n -> Created], t \in PlainTasks :
            CoordinateAgents(Caller1, handles, t)
                => LET q == proc'[Caller1]
                       Q(i) == /\ IsHealthy(agent[handles[i]])
                               /\ CanHandle(agent[handles[i]], t.type)
                   IN  /\ n = 0 => q.pc = "done" /\ ~q.res.success /\ q.res.err # ""
                       /\ n = 1 => q.pc = "exec" /\ q.sel = handles[1]
                       /\ (n > 1 /\ \E i \in 1..n : Q(i))
                             => /\ q.pc = "exec"
                                /\ \E i \in 1..n : /\ Q(i) /\ q.sel = handles[i]
                                                   /\ \A j \in 1..(i - 1) : ~Q(j)
                       /\ (n > 1 /\ \A i \in 1..n : ~Q(i))
                             => q.pc = "done" /\ ~q.res.success /\ q.res.err # ""
       /\ \A p \in Callers :
            (proc[p].coord /\ SelectAndExecute(p))
                => /\ proc'[p].sel = proc[p].sel
                   /\ proc'[p].pc # "exec"
                   /\ \A a \in AgentIds \ {proc[p].sel} : agent'[a] = agent[a]]_vars

\* the second of two handles is chosen because the first agent is terminated
C39_Witness ==
    \E p \in Callers :
        /\ proc[p].coord
        /\ proc[p].pc = "run"
        /\ Len(proc[p].handles) = 2
        /\ proc[p].handles[1] # proc[p].handles[2]
        /\ proc[p].sel = proc[p].handles[2]
        /\ agent[proc[p].handles[1]].status = AgentStatusTerminated

\* C37: ListTasks changes nothing and returns exactly the stored tasks that
\* satisfy every non-nil filter, with the first Offset of them skipped and at
\* most Limit kept (a Limit of 0 is no limit): an Offset at or beyond the
\* number of matches yields an empty result.
C37_ListTasksPagination ==
    [][listing' # listing
          => LET L == listing'
                 n == Len(L.all)
                 rest == IF L.f.Offset >= n THEN 0 ELSE n - L.f.Offset
                 keep == IF L.f.Limit > 0 /\ L.f.Limit < rest THEN L.f.Limit ELSE rest
             IN  /\ UNCHANGED <<recs, queue, stats>>
                 /\ \A k \in 1..n :
                       /\ TaskTable(recs[L.all[k]].id) = L.all[k]
                       /\ L.f.status = "" \/ recs[L.all[k]].status = L.f.status
                       /\ L.f.type = "" \/ recs[L.all[k]].type = L.f.type
                 /\ L.result = SubSeq(L.all, L.f.Offset + 1, L.f.Offset + keep)]_vars

\* C38: an adapter agent that finds no http adapter registered provisions one
\* and performs the request with it, in every interleaving of concurrent
\* executions: no execution fails because of provisioning, and the registry
\* then holds exactly the one provisioned adapter.
C38_LazyProvisioning ==
    [][\A e \in Callers :
          Register(e) => /\ adp'.run[e].pc = "request"
                         /\ adp'.adapters = {"dynamic-http-adapter"}]_vars

TypeOK ==
    /\ agents \subseteq AgentIds
    /\ calls \in 0..MaxCalls
    /\ crashed \in BOOLEAN

====
